---- MODULE Spec2Model ----
(***************************************************************************)
(* A model of repoprotector: the GitHub API layer (api/github), the diff   *)
(* of the preview pane (components/PreviewPane), the protection editor     *)
(* (components/ProtectionEditor) and the screen-flow controller (app.ts).  *)
(*                                                                         *)
(* JavaScript values are tagged records: the tag t is the result of        *)
(* typeof, with null and arrays told apart.  An object is a record whose   *)
(* absent properties hold Undef: none of the modelled code tells an absent *)
(* property from one that holds undefined (??, === undefined, spread, and  *)
(* JSON.stringify, which leaves both out).                                 *)
(***************************************************************************)
EXTENDS Integers, Sequences, FiniteSets, TLC

----------------------------------------------------------------------------
(* Bounds of the model. *)

\* Longest target list handed to applyProtectionToMultiple.
MaxTargets == 3

\* The operations in flight at one time in the application are at most this many.
MaxPending == 2

\* The editor's configuration is changed at most this many times in one run.
MaxEdits == 1

\* The screens shown in one run are at most this many.
MaxScreens == 6

\* The templates saved from the editor in one run are at most this many.
MaxTemplates == 1

\* The clock of the template store shows at most this many milliseconds.
MaxClock == 2

----------------------------------------------------------------------------
(* JavaScript values. *)

Undef == [t |-> "undefined"]
Null == [t |-> "null"]
Bool(b) == [t |-> "boolean", v |-> b]
Num(n) == [t |-> "number", v |-> n]
\* A string is the sequence of its letters. A letter is a character the code
\* looks at (the comma, the space, a sign, a digit) or a run of other characters.
Str(s) == [t |-> "string", v |-> s]
\* An array of strings.
Arr(s) == [t |-> "array", v |-> s]

\* The left operand of ?? is replaced when it is null or undefined.
Nullish(v) == v = Undef \/ v = Null

\* a ?? b
Coalesce(a, b) == IF Nullish(a) THEN b ELSE a

\* RequiredPullRequestReviews, restricted to the three members the editor edits.
Rpr(dismiss, owners, count) ==
    [t |-> "object",
     dismiss_stale_reviews |-> dismiss,
     require_code_owner_reviews |-> owners,
     required_approving_review_count |-> count]

\* RequiredStatusChecks: strict and the list of context names.
Rsc(strict, contexts) ==
    [t |-> "object", strict |-> strict, contexts |-> contexts]

\* The six boolean flags, in the order every object literal of the code lists them.
FlagKeys ==
    <<"enforce_admins", "required_linear_history", "allow_force_pushes",
      "allow_deletions", "block_creations", "required_conversation_resolution">>

\* The keys of BranchProtectionInput, in the order updateBranchProtection and
\* createDefaultProtection write them.
InputKeys ==
    <<"required_pull_request_reviews", "required_status_checks">>
    \o FlagKeys \o <<"restrictions">>

\* The keys of BranchProtection, in the order transformProtectionResponse writes them.
ProtectionKeys ==
    <<"url">> \o InputKeys \o <<"required_signatures", "lock_branch">>

\* The members a live BranchProtection has and a BranchProtectionInput has not.
LiveOnlyKeys == {"url", "required_signatures", "lock_branch"}

Range(s) == {s[i] : i \in 1..Len(s)}

\* The object with no property set.
EmptyObject == [k \in Range(ProtectionKeys) |-> Undef]

\* What a flag is sent as when the input leaves it out.
FlagDefault(k) ==
    IF k = "required_conversation_resolution" THEN Bool(TRUE) ELSE Bool(FALSE)

----------------------------------------------------------------------------
(* api/github: extractEnabled and transformProtectionResponse. *)

\* Whether a value counts as true in a condition.
Truthy(v) ==
    CASE v.t = "undefined" -> FALSE
      [] v.t = "null" -> FALSE
      [] v.t = "boolean" -> v.v
      [] v.t = "number" -> v.v # 0
      [] v.t = "string" -> v.v # <<>>
      [] OTHER -> TRUE

\* An extractEnabled that takes nothing but { enabled } objects.
extractEnabledObjectsOnly(value) ==
    IF Nullish(value) THEN Null
    ELSE IF value.t = "object" /\ "enabled" \in DOMAIN value THEN value.enabled
    ELSE Null

\* extractEnabled(value)
extractEnabled(value) ==
    IF Nullish(value) THEN Null
    ELSE IF value.t = "object" /\ "enabled" \in DOMAIN value THEN value.enabled
    ELSE value

\* { enabled: ... }
Enabled(v) == [t |-> "object", enabled |-> v]

\* A transformProtectionResponse that fills what is missing: a missing flag
\* with its default, a missing substructure with null.
transformFillingDefaults(raw) ==
    [k \in Range(ProtectionKeys) |->
        IF k \in Range(FlagKeys)
        THEN Coalesce(extractEnabled(raw[k]), FlagDefault(k))
        ELSE IF k = "lock_branch" THEN extractEnabled(raw[k])
        ELSE IF k = "required_signatures"
        THEN IF Truthy(raw[k]) THEN Enabled(extractEnabled(raw[k])) ELSE Null
        ELSE IF k = "url" THEN raw[k]
        ELSE Coalesce(raw[k], Null)]

\* transformProtectionResponse(raw)
transformProtectionResponse(raw) ==
    [k \in Range(ProtectionKeys) |->
        IF k \in Range(FlagKeys) \/ k = "lock_branch" THEN extractEnabled(raw[k])
        ELSE IF k = "required_signatures"
        THEN IF Truthy(raw[k]) THEN Enabled(extractEnabled(raw[k])) ELSE Null
        ELSE raw[k]]

----------------------------------------------------------------------------
(* api/github: updateBranchProtection and applyProtectionToMultiple. *)

\* The body a protection with no null handling would send: the input itself.
cleanInputUnsanitized(protection) == protection

\* The body updateBranchProtection sends: nine keys, each input ?? its default.
cleanInput(protection) ==
    [k \in Range(InputKeys) |->
        IF k \in Range(FlagKeys)
        THEN Coalesce(protection[k], FlagDefault(k))
        ELSE Coalesce(protection[k], Null)]

\* `${target.owner}/${target.repo}`
FullName(target) == <<target.owner, "/", target.repo>>

\* The repo member of an ApplyResult.
ResultRepo(target) ==
    [name |-> target.repo,
     full_name |-> FullName(target),
     owner |-> [login |-> target.owner]]

\* The result pushed when the update of target resolved.
SuccessResult(target) ==
    [repo |-> ResultRepo(target), branch |-> target.branch,
     success |-> TRUE, error |-> Undef]

\* A failure recorded without its message.
FailureResultNoMessage(target, outcome) ==
    [repo |-> ResultRepo(target), branch |-> target.branch,
     success |-> FALSE, error |-> Undef]

\* The result pushed when the update of target threw: the Error's message, or
\* 'Unknown error' for a thrown value that is no Error.
FailureResult(target, outcome) ==
    [repo |-> ResultRepo(target), branch |-> target.branch,
     success |-> FALSE,
     error |-> IF outcome.kind = "error" THEN Str(outcome.message)
               ELSE Str(<<"Unknown error">>)]

\* How one call of updateBranchProtection ends: it resolves, it throws an Error
\* (gh exited non-zero, its output did not parse), or it throws another value.
Outcomes ==
    {[kind |-> "ok", message |-> <<>>],
     [kind |-> "error", message |-> <<"HTTP 422">>],
     [kind |-> "thrown", message |-> <<>>]}

\* One run of applyProtectionToMultiple: next is the index of the target the
\* for-of loop takes next, inflight the indices whose update is awaited, sent the
\* requests handed to ghApi, settled the outcome each update ended with.
NewBatch(targets, protection) ==
    [targets |-> targets, protection |-> protection, next |-> 1,
     inflight |-> {}, sent |-> <<>>, settled |-> <<>>, results |-> <<>>,
     returned |-> FALSE]

\* A loop that gives up on the targets left once an update has failed.
MoreTargetsUntilFailure(b) ==
    /\ b.next <= Len(b.targets)
    /\ \A i \in 1..Len(b.results) : b.results[i].success

\* for (const target of targets): a target is left.
MoreTargets(b) == b.next <= Len(b.targets)

\* A loop that does not wait for the update it started.
AwaitSettledNever(b) == TRUE

\* await updateBranchProtection(...): the loop goes on once no update is awaited.
AwaitSettled(b) == b.inflight = {}

\* The request updateBranchProtection hands to ghApi for one target.
Request(target, protection) ==
    [owner |-> target.owner, repo |-> target.repo, branch |-> target.branch,
     method |-> "PUT", body |-> cleanInput(protection)]

\* The loop runs until it awaits an update or has no target left.
RECURSIVE RunLoop(_)
RunLoop(b) ==
    IF AwaitSettled(b) /\ MoreTargets(b)
    THEN RunLoop([b EXCEPT
             !.inflight = @ \cup {b.next},
             !.sent = Append(@, Request(b.targets[b.next], b.protection)),
             !.next = @ + 1])
    ELSE IF b.inflight = {} /\ ~MoreTargets(b)
         THEN [b EXCEPT !.returned = TRUE]
         ELSE b

\* The awaited update of target i ends with outcome: its result is pushed and
\* the loop goes on.
Settle(b, i, outcome) ==
    RunLoop([b EXCEPT
        !.inflight = @ \ {i},
        !.settled = Append(@, [index |-> i, outcome |-> outcome]),
        !.results = Append(@,
            IF outcome.kind = "ok" THEN SuccessResult(b.targets[i])
            ELSE FailureResult(b.targets[i], outcome))])

----------------------------------------------------------------------------
(* components/PreviewPane: diffProtection. *)

\* The members of an object value, in the order its literal lists them.
ObjectKeys(v) ==
    IF "strict" \in DOMAIN v THEN <<"strict", "contexts">>
    ELSE IF "enabled" \in DOMAIN v THEN <<"enabled">>
    ELSE IF "users" \in DOMAIN v THEN <<"users", "teams", "apps">>
    ELSE <<"dismiss_stale_reviews", "require_code_owner_reviews",
           "required_approving_review_count">>

\* The elements of an array of strings, quoted and separated by commas.
RECURSIVE StringifyElements(_)
StringifyElements(s) ==
    IF s = <<>> THEN <<>>
    ELSE <<"\"">> \o Head(s) \o <<"\"">>
         \o (IF Len(s) > 1 THEN <<",">> ELSE <<>>)
         \o StringifyElements(Tail(s))

\* JSON.stringify(v), as the sequence of the text's tokens; <<"undefined">> is
\* the undefined it returns for undefined. A member holding undefined is left out.
RECURSIVE JSONstringify(_)
RECURSIVE StringifyMembers(_, _, _)
StringifyMembers(v, keys, first) ==
    IF keys = <<>> THEN <<>>
    ELSE IF v[Head(keys)] = Undef THEN StringifyMembers(v, Tail(keys), first)
    ELSE (IF first THEN <<>> ELSE <<",">>)
         \o <<"\"", Head(keys), "\"", ":">> \o JSONstringify(v[Head(keys)])
         \o StringifyMembers(v, Tail(keys), FALSE)
JSONstringify(v) ==
    CASE v.t = "undefined" -> <<"undefined">>
      [] v.t = "null" -> <<"null">>
      [] v.t = "boolean" -> IF v.v THEN <<"true">> ELSE <<"false">>
      [] v.t = "number" -> <<ToString(v.v)>>
      [] v.t = "string" -> <<"\"">> \o v.v \o <<"\"">>
      [] v.t = "array" -> <<"[">> \o StringifyElements(v.v) \o <<"]">>
      [] v.t = "object" ->
            <<"{">> \o StringifyMembers(v, ObjectKeys(v), TRUE) \o <<"}">>

\* current ? current[key] : undefined
CurrentVal(current, key) == IF current = Null THEN Undef ELSE current[key]

\* A classification that does not pass over url.
ClassifyWithUrl(current, proposed, key) ==
    LET currentVal == CurrentVal(current, key)
        proposedVal == proposed[key]
    IN  IF currentVal = Undef /\ proposedVal # Undef THEN "added"
        ELSE IF currentVal # Undef /\ proposedVal = Undef THEN "removed"
        ELSE IF JSONstringify(currentVal) # JSONstringify(proposedVal)
             THEN "changed"
        ELSE "same"

\* A classification that lists under added whatever the proposal defines.
ClassifyNoCurrentCheck(current, proposed, key) ==
    LET currentVal == CurrentVal(current, key)
        proposedVal == proposed[key]
    IN  IF key = "url" THEN "skipped"
        ELSE IF proposedVal # Undef THEN "added"
        ELSE IF currentVal # Undef /\ proposedVal = Undef THEN "removed"
        ELSE IF JSONstringify(currentVal) # JSONstringify(proposedVal)
             THEN "changed"
        ELSE "same"

\* The body of the loop of diffProtection for one key: the list the key is
\* pushed to.
Classify(current, proposed, key) ==
    LET currentVal == CurrentVal(current, key)
        proposedVal == proposed[key]
    IN  IF key = "url" THEN "skipped"
        ELSE IF currentVal = Undef /\ proposedVal # Undef THEN "added"
        ELSE IF currentVal # Undef /\ proposedVal = Undef THEN "removed"
        ELSE IF JSONstringify(currentVal) # JSONstringify(proposedVal)
             THEN "changed"
        ELSE "same"

\* The keys of a list of the diff, in the order the loop meets them: the keys of
\* current, then those of proposed, both written in the order of ProtectionKeys.
KeysClassified(current, proposed, list) ==
    LET Listed(key) == Classify(current, proposed, key) = list
    IN  SelectSeq(ProtectionKeys, Listed)

\* diffProtection(current, proposed)
diffProtection(current, proposed) ==
    [added |-> KeysClassified(current, proposed, "added"),
     removed |-> KeysClassified(current, proposed, "removed"),
     changed |-> KeysClassified(current, proposed, "changed")]

----------------------------------------------------------------------------
(* ProtectionEditor: createDefaultProtection. *)

\* createDefaultProtection()
createDefaultProtection ==
    [k \in Range(ProtectionKeys) |->
        IF k = "required_pull_request_reviews"
        THEN Rpr(Bool(FALSE), Bool(FALSE), Num(1))
        ELSE IF k \in {"required_status_checks", "restrictions"} THEN Null
        ELSE IF k \in Range(FlagKeys) THEN FlagDefault(k)
        ELSE Undef]

----------------------------------------------------------------------------
(* Strings: join, split, trim, parseInt. *)

\* names.join(', ')
RECURSIVE Join(_)
Join(names) ==
    IF names = <<>> THEN <<>>
    ELSE IF Len(names) = 1 THEN Head(names)
    ELSE Head(names) \o <<",", " ">> \o Join(Tail(names))

\* text.split(','): the pieces between the commas, at least one.
RECURSIVE SplitFrom(_, _)
SplitFrom(text, piece) ==
    IF text = <<>> THEN <<piece>>
    ELSE IF Head(text) = "," THEN <<piece>> \o SplitFrom(Tail(text), <<>>)
    ELSE SplitFrom(Tail(text), Append(piece, Head(text)))
Split(text) == SplitFrom(text, <<>>)

\* s.trim()
RECURSIVE TrimStart(_)
TrimStart(s) ==
    IF s # <<>> /\ Head(s) = " " THEN TrimStart(Tail(s)) ELSE s
RECURSIVE TrimEnd(_)
TrimEnd(s) ==
    IF s # <<>> /\ s[Len(s)] = " " THEN TrimEnd(SubSeq(s, 1, Len(s) - 1)) ELSE s
Trim(s) == TrimEnd(TrimStart(s))

\* pieces.map((s) => s.trim()).filter(Boolean)
RECURSIVE TrimAndFilter(_)
TrimAndFilter(pieces) ==
    IF pieces = <<>> THEN <<>>
    ELSE (IF Trim(Head(pieces)) = <<>> THEN <<>> ELSE <<Trim(Head(pieces))>>)
         \o TrimAndFilter(Tail(pieces))

Digits == <<"0", "1", "2", "3", "4", "5", "6", "7", "8", "9">>
IsDigit(c) == c \in Range(Digits)
DigitValue(c) == (CHOOSE i \in 1..10 : Digits[i] = c) - 1

\* The value of the longest run of digits s starts with (acc so far).
RECURSIVE DigitRun(_, _)
DigitRun(s, acc) ==
    IF s # <<>> /\ IsDigit(Head(s))
    THEN DigitRun(Tail(s), 10 * acc + DigitValue(Head(s)))
    ELSE acc

\* parseInt(val, 10): leading blanks, a sign, digits; NaN without a digit.
parseInt(val) ==
    LET s == TrimStart(val)
        signed == s # <<>> /\ Head(s) \in {"-", "+"}
        digits == IF signed THEN Tail(s) ELSE s
    IN  IF digits = <<>> \/ ~IsDigit(Head(digits))
        THEN [nan |-> TRUE, v |-> 0]
        ELSE [nan |-> FALSE,
              v |-> IF signed /\ Head(s) = "-"
                    THEN 0 - DigitRun(digits, 0) ELSE DigitRun(digits, 0)]

\* array.includes(name)
Includes(array, name) == \E i \in 1..Len(array) : array[i] = name

----------------------------------------------------------------------------
(* components/ProtectionEditor. *)

\* The parent of a top-level field: none.
NoParent == "undefined"

\* One EditorField: key, type, value, parent (NoParent for a top-level field).
Field(key, type, value, parent) ==
    [key |-> key, type |-> type, value |-> value, parent |-> parent]

\* The fields of the six top-level flags.
FlagFields(p) ==
    [i \in 1..Len(FlagKeys) |->
        Field(FlagKeys[i], "boolean",
              Coalesce(p[FlagKeys[i]], FlagDefault(FlagKeys[i])), NoParent)]

\* The fields of the pull request review block.
ReviewFields(p) ==
    LET rpr == p.required_pull_request_reviews
        parent == "required_pull_request_reviews"
    IN  IF Truthy(rpr)
        THEN <<Field("rpr_enabled", "boolean", Bool(TRUE), parent),
               Field("dismiss_stale_reviews", "boolean",
                     Coalesce(rpr.dismiss_stale_reviews, Bool(FALSE)), parent),
               Field("require_code_owner_reviews", "boolean",
                     Coalesce(rpr.require_code_owner_reviews, Bool(FALSE)), parent),
               Field("required_approving_review_count", "number",
                     Coalesce(rpr.required_approving_review_count, Num(1)), parent)>>
        ELSE <<Field("rpr_enabled", "boolean", Bool(FALSE), parent)>>

\* rsc.contexts?.join(', ') ?? ''
ContextsText(rsc) ==
    IF Nullish(rsc.contexts) THEN Str(<<>>) ELSE Str(Join(rsc.contexts.v))

\* The fields of the status check block with the workflow row whether or not a
\* workflow is known.
CheckFieldsWithPicker(p, workflows) ==
    LET rsc == p.required_status_checks
        parent == "required_status_checks"
    IN  IF Truthy(rsc)
        THEN <<Field("rsc_enabled", "boolean", Bool(TRUE), parent),
               Field("strict", "boolean", Coalesce(rsc.strict, Bool(FALSE)), parent),
               Field("contexts", "string", ContextsText(rsc), parent),
               Field("add_workflow", "workflow-select", Str(<<>>), parent)>>
        ELSE <<Field("rsc_enabled", "boolean", Bool(FALSE), parent)>>

\* The fields of the status check block.
CheckFields(p, workflows) ==
    LET rsc == p.required_status_checks
        parent == "required_status_checks"
    IN  IF Truthy(rsc)
        THEN <<Field("rsc_enabled", "boolean", Bool(TRUE), parent),
               Field("strict", "boolean", Coalesce(rsc.strict, Bool(FALSE)), parent),
               Field("contexts", "string", ContextsText(rsc), parent)>>
             \o (IF Len(workflows) > 0
                 THEN <<Field("add_workflow", "workflow-select", Str(<<>>), parent)>>
                 ELSE <<>>)
        ELSE <<Field("rsc_enabled", "boolean", Bool(FALSE), parent)>>

\* buildFields()
buildFields(p, workflows) ==
    FlagFields(p) \o ReviewFields(p) \o CheckFields(p, workflows)
    \o <<Field("divider_apply", "boolean", Bool(FALSE), NoParent),
         Field("apply", "boolean", Bool(FALSE), NoParent)>>

\* renderFields(): the rows are rebuilt from buildFields().
renderFields(e) ==
    [e EXCEPT !.fields = buildFields(e.protection, e.workflows)]

\* The state of a new editor, after the renderFields() that ends its creation.
NewEditor ==
    renderFields(
        [protection |-> createDefaultProtection, fields |-> <<>>,
         focusIndex |-> 0, workflows |-> <<>>, repoInfo |-> Null,
         showWorkflowModal |-> FALSE, workflowItems |-> <<>>,
         workflowFocusIndex |-> 0])

\* setProtection(protection): a copy of the top-level members, or the default.
setProtection(e, protection) ==
    renderFields(
        [e EXCEPT !.protection = IF protection = Null
                                 THEN createDefaultProtection
                                 ELSE protection,
                  !.focusIndex = 0])

\* The field at the focus index, Undef when there is none.
FocusedField(e) ==
    IF e.focusIndex + 1 \in 1..Len(e.fields) THEN e.fields[e.focusIndex + 1]
    ELSE Undef

\* The input focusCurrentField() focuses: the one of the focused number or
\* string field, none (Undef) for any other field.
FocusedInput(e) ==
    LET field == FocusedField(e)
    IN  IF field # Undef /\ field.type \in {"number", "string"} THEN field
        ELSE Undef

\* updateProtectionFromField(field)
updateProtectionFromField(e, field) ==
    LET p == e.protection
        rpr == p.required_pull_request_reviews
        rsc == p.required_status_checks
    IN  IF field.parent = "required_pull_request_reviews"
        THEN IF field.key = "rpr_enabled"
             THEN renderFields([e EXCEPT !.protection.required_pull_request_reviews =
                      IF Truthy(field.value)
                      THEN Rpr(Bool(FALSE), Bool(FALSE), Num(1)) ELSE Null])
             ELSE IF Truthy(rpr)
                     /\ field.key \in {"dismiss_stale_reviews",
                                       "require_code_owner_reviews",
                                       "required_approving_review_count"}
             THEN [e EXCEPT !.protection.required_pull_request_reviews[field.key] =
                      field.value]
             ELSE e
        ELSE IF field.parent = "required_status_checks"
        THEN IF field.key = "rsc_enabled"
             THEN renderFields([e EXCEPT !.protection.required_status_checks =
                      IF Truthy(field.value)
                      THEN Rsc(Bool(FALSE), Arr(<<>>)) ELSE Null])
             ELSE IF Truthy(rsc) /\ field.key = "strict"
             THEN [e EXCEPT !.protection.required_status_checks.strict = field.value]
             ELSE IF Truthy(rsc) /\ field.key = "contexts"
             THEN [e EXCEPT !.protection.required_status_checks.contexts =
                      Arr(TrimAndFilter(Split(field.value.v)))]
             ELSE e
        ELSE IF field.key \in Range(FlagKeys)
        THEN [e EXCEPT !.protection[field.key] = field.value]
        ELSE e

\* The stored field keeps the value it has.
KeepFieldValue(e, i, value) == e

\* The stored field at index i (from 0) gets the value.
SetFieldValue(e, i, value) == [e EXCEPT !.fields[i + 1].value = value]

\* The INPUT event of the focused number input: a non-negative integer is
\* stored in the field and the protection, anything else is dropped.
NumberInput(e, val) ==
    LET num == parseInt(val)
        edited == SetFieldValue(e, e.focusIndex, Num(num.v))
    IN  IF ~num.nan /\ num.v >= 0
        THEN updateProtectionFromField(edited, FocusedField(edited))
        ELSE e

\* The INPUT event of the focused string input.
StringInput(e, val) ==
    LET edited == SetFieldValue(e, e.focusIndex, Str(val))
    IN  updateProtectionFromField(edited, FocusedField(edited))

\* Every name is pushed, in the list or not.
PushAll(contexts, names) == contexts \o names

\* The picker as an editor of the whole list: the contexts become the names
\* given.
setWorkflowChecks(e, workflowNames) ==
    LET rsc == IF Truthy(e.protection.required_status_checks)
               THEN e.protection.required_status_checks
               ELSE Rsc(Bool(FALSE), Arr(<<>>))
    IN  renderFields([e EXCEPT !.protection.required_status_checks =
            [rsc EXCEPT !.contexts = Arr(workflowNames)]])

\* addWorkflowChecks(workflowNames)
RECURSIVE PushMissing(_, _)
PushMissing(contexts, names) ==
    IF names = <<>> THEN contexts
    ELSE PushMissing(
            IF Includes(contexts, Head(names)) THEN contexts
            ELSE Append(contexts, Head(names)),
            Tail(names))
addWorkflowChecks(e, workflowNames) ==
    LET rsc == IF Truthy(e.protection.required_status_checks)
               THEN e.protection.required_status_checks
               ELSE Rsc(Bool(FALSE), Arr(<<>>))
    IN  renderFields([e EXCEPT !.protection.required_status_checks =
            [rsc EXCEPT !.contexts = Arr(PushMissing(rsc.contexts.v, workflowNames))]])

\* state.protection.required_status_checks?.contexts?.includes(name) ?? false
AlreadyAdded(e, name) ==
    LET rsc == e.protection.required_status_checks
    IN  IF Nullish(rsc) THEN FALSE
        ELSE IF Nullish(rsc.contexts) THEN FALSE
        ELSE Includes(rsc.contexts.v, name)

\* showWorkflowModal()
showWorkflowModal(e) ==
    IF Len(e.workflows) = 0 THEN e
    ELSE [e EXCEPT
            !.workflowItems =
                [i \in 1..Len(e.workflows) |->
                    [workflow |-> e.workflows[i],
                     selected |-> AlreadyAdded(e, e.workflows[i])]],
            !.workflowFocusIndex = 0,
            !.showWorkflowModal = TRUE]

\* The names of the selected items, in the order of the list.
RECURSIVE SelectedNames(_)
SelectedNames(items) ==
    IF items = <<>> THEN <<>>
    ELSE (IF Head(items).selected THEN <<Head(items).workflow>> ELSE <<>>)
         \o SelectedNames(Tail(items))

\* What handleKey does beside changing the editor: it calls onSave, onCancel
\* or neither.
Handled(e, signal) == [editor |-> e, signal |-> signal]

\* The modal keys with Esc doing what Enter does.
handleModalKeyEscAdds(e, key) ==
    LET n == Len(e.workflowItems)
        i == e.workflowFocusIndex
    IN  IF key.name \in {"up", "k"}
        THEN [e EXCEPT !.workflowFocusIndex = (i - 1 + n) % n]
        ELSE IF key.name \in {"down", "j"}
        THEN [e EXCEPT !.workflowFocusIndex = (i + 1) % n]
        ELSE IF key.name = "space"
        THEN IF i + 1 \in 1..n
             THEN [e EXCEPT !.workflowItems[i + 1].selected = ~@]
             ELSE e
        ELSE IF key.name \in {"return", "enter", "escape"}
        THEN LET closed == [e EXCEPT !.showWorkflowModal = FALSE]
                 selected == SelectedNames(e.workflowItems)
             IN  IF Len(selected) > 0 THEN addWorkflowChecks(closed, selected)
                 ELSE renderFields(closed)
        ELSE e

\* handleKey while the workflow modal is open.
handleModalKey(e, key) ==
    LET n == Len(e.workflowItems)
        i == e.workflowFocusIndex
    IN  IF key.name = "escape"
        THEN renderFields([e EXCEPT !.showWorkflowModal = FALSE])
        ELSE IF key.name \in {"up", "k"}
        THEN [e EXCEPT !.workflowFocusIndex = (i - 1 + n) % n]
        ELSE IF key.name \in {"down", "j"}
        THEN [e EXCEPT !.workflowFocusIndex = (i + 1) % n]
        ELSE IF key.name = "space"
        THEN IF i + 1 \in 1..n
             THEN [e EXCEPT !.workflowItems[i + 1].selected = ~@]
             ELSE e
        ELSE IF key.name \in {"return", "enter"}
        THEN LET closed == [e EXCEPT !.showWorkflowModal = FALSE]
                 selected == SelectedNames(e.workflowItems)
             IN  IF Len(selected) > 0 THEN addWorkflowChecks(closed, selected)
                 ELSE renderFields(closed)
        ELSE e

\* Enter that starts over from the default configuration before it flips
\* the member.
handleEnterFromDefaults(e) ==
    LET field == FocusedField(e)
        toggled == SetFieldValue([e EXCEPT !.protection = createDefaultProtection],
                                 e.focusIndex, Bool(~Truthy(field.value)))
    IN  IF field = Undef THEN Handled(e, "none")
        ELSE IF field.key = "apply" THEN Handled(e, "save")
        ELSE IF field.type = "boolean"
        THEN Handled(renderFields(
                updateProtectionFromField(toggled, FocusedField(toggled))), "none")
        ELSE IF field.type = "workflow-select"
        THEN Handled(showWorkflowModal(e), "none")
        ELSE Handled(e, "none")

\* handleKey on Enter with the modal closed.
handleEnter(e) ==
    LET field == FocusedField(e)
        toggled == SetFieldValue(e, e.focusIndex, Bool(~Truthy(field.value)))
    IN  IF field = Undef THEN Handled(e, "none")
        ELSE IF field.key = "apply" THEN Handled(e, "save")
        ELSE IF field.type = "boolean"
        THEN Handled(renderFields(
                updateProtectionFromField(toggled, FocusedField(toggled))), "none")
        ELSE IF field.type = "workflow-select"
        THEN Handled(showWorkflowModal(e), "none")
        ELSE Handled(e, "none")

\* handleKey(key)
handleKey(e, key) ==
    LET n == Len(e.fields)
        back == renderFields([e EXCEPT !.focusIndex = (e.focusIndex - 1 + n) % n])
        forth == renderFields([e EXCEPT !.focusIndex = (e.focusIndex + 1) % n])
    IN  IF e.showWorkflowModal THEN Handled(handleModalKey(e, key), "none")
        ELSE IF key.ctrl /\ key.name = "a" THEN Handled(e, "save")
        ELSE IF key.name = "tab"
        THEN Handled(IF key.shift THEN back ELSE forth, "none")
        ELSE IF key.name \in {"return", "enter"} THEN handleEnter(e)
        ELSE IF key.name = "escape" THEN Handled(e, "cancel")
        ELSE IF key.name \in {"up", "k"} THEN Handled(back, "none")
        ELSE IF key.name \in {"down", "j"} THEN Handled(forth, "none")
        ELSE Handled(e, "none")

----------------------------------------------------------------------------
(* app.ts: the controller. A world is the controller's state, the component *)
(* on screen and the operations in flight.                                  *)

\* What the remote side holds: the organizations, the repositories of each,
\* the branches of each repository, the workflows of each repository.
OrgList == <<[login |-> "acme"], [login |-> "octo"]>>
RepoList(login) ==
    <<[name |-> "api", owner |-> login], [name |-> "web", owner |-> login]>>
BranchList == <<Str(<<"main">>)>>
WorkflowList == << <<"ci/build">>, <<"ci/test">> >>

\* The state object of runApp as it is declared.
InitialState ==
    [screen |-> "orgs", org |-> Null, repos |-> <<>>, selectedRepos |-> <<>>,
     branch |-> Null, currentProtection |-> Null, proposedProtection |-> Null,
     results |-> <<>>, isLoading |-> FALSE, error |-> Null]

\* currentScreenComponent = null
NoComponent == [kind |-> "none"]

\* The configurations in reach, by holder: state.currentProtection,
\* state.proposedProtection and the protection of the editor on screen. Their
\* nested objects, one per slot, can be one and the same object.
Holders == {"current", "proposed", "editor"}
Slots == {"required_pull_request_reviews", "required_status_checks"}

\* No two holders hold the same nested object.
Apart == [slot \in Slots |-> {{h} : h \in Holders}]

\* The holders that hold the object the holder holds.
BlockOf(blocks, h) == CHOOSE b \in blocks : h \in b

\* The holder is given another object.
Detach(blocks, h) == ({b \ {h} : b \in blocks} \ {{}}) \cup {{h}}

\* The holder is given the object the other holder holds.
JoinTo(blocks, h, other) ==
    LET rest == Detach(blocks, h)
        block == BlockOf(rest, other)
    IN  (rest \ {block, {h}}) \cup {block \cup {h}}

\* The world before the first screen is shown.
InitialWorld ==
    [state |-> InitialState, component |-> NoComponent, pending |-> <<>>,
     screens |-> 0, same |-> Apart, templates |-> <<>>]

\* The configuration of a holder, null when there is none.
Config(w, h) ==
    IF h = "current" THEN w.state.currentProtection
    ELSE IF h = "proposed" THEN w.state.proposedProtection
    ELSE IF w.component.kind = "editor" THEN w.component.protection
    ELSE Null

\* The holder holds an object in the slot.
HoldsObject(w, h, slot) ==
    Config(w, h) # Null /\ Config(w, h)[slot].t = "object"

\* Only objects are shared: a holder of null or nothing shares with no one.
RECURSIVE DetachAll(_, _)
DetachAll(blocks, holders) ==
    IF holders = {} THEN blocks
    ELSE LET h == CHOOSE x \in holders : TRUE
         IN  DetachAll(Detach(blocks, h), holders \ {h})
OnlyObjects(w) ==
    [w EXCEPT !.same = [slot \in Slots |->
        DetachAll(w.same[slot], {h \in Holders : ~HoldsObject(w, h, slot)})]]

\* An operation in flight: an external call and what awaits it. attached tells
\* that the component its continuation updates is the one on screen.
Op(kind, arg) == [kind |-> kind, arg |-> arg, attached |-> TRUE]

\* The operations in flight that are external operations (a timer is none).
ExternalOps(pending) ==
    {i \in 1..Len(pending) : pending[i].kind # "timer"}

\* clearScreen(): the component leaves the screen; what is in flight for it
\* still completes. Every caller shows a screen next: screens counts them.
clearScreen(w) ==
    [w EXCEPT !.component = NoComponent,
              !.same = [slot \in Slots |-> Detach(@[slot], "editor")],
              !.screens = @ + 1,
              !.pending = [i \in 1..Len(w.pending) |->
                              [w.pending[i] EXCEPT !.attached = FALSE]]]

showLoading(w) == [w EXCEPT !.state.isLoading = TRUE]
hideLoading(w) == [w EXCEPT !.state.isLoading = FALSE]
showError(w, message) == [w EXCEPT !.state.error = Str(message)]

\* err instanceof Error ? err.message : fallback
ErrorMessage(outcome, fallback) ==
    IF outcome.kind = "error" THEN outcome.message ELSE fallback

\* The operation is issued: it joins the operations in flight.
Issue(w, op) == [w EXCEPT !.pending = Append(@, op)]

\* The operation at index i has completed.
Remove(pending, i) ==
    SubSeq(pending, 1, i - 1) \o SubSeq(pending, i + 1, Len(pending))

\* showOrgSelector()
showOrgSelector(w) ==
    LET cleared == clearScreen(w)
        shown == [cleared EXCEPT
                    !.state.screen = "orgs",
                    !.component = [kind |-> "orgs", options |-> <<>>]]
    IN  Issue(showLoading(shown), Op("orgs", Null))

\* A selector that shows the organizations whatever was asked for.
showOrgSelectorInstead(w) == showOrgSelector(w)

\* showRepoSelector()
showRepoSelector(w) ==
    IF w.state.org = Null THEN w
    ELSE LET cleared == clearScreen(w)
             shown == [cleared EXCEPT
                         !.state.screen = "repos",
                         !.component = [kind |-> "repos", repos |-> <<>>]]
         IN  Issue(showLoading(shown), Op("repos", w.state.org.login))

\* showBranchSelector()
showBranchSelector(w) ==
    IF Len(w.state.selectedRepos) = 0 THEN w
    ELSE LET cleared == clearScreen(w)
             repo == w.state.selectedRepos[1]
             shown == [cleared EXCEPT
                         !.state.screen = "branches",
                         !.component = [kind |-> "branches", repo |-> repo,
                                        options |-> <<>>]]
         IN  Issue(showLoading(shown), Op("branches", repo))

\* setRepoInfo(owner, repo) up to its await: the workflows are asked for.
setRepoInfo(w, repo) ==
    Issue([w EXCEPT !.component.repoInfo = repo], Op("workflows", repo))

\* showEditor(): the editor's protection is a copy of the members of the live
\* configuration, so its nested objects are those of the live configuration.
showEditor(w) ==
    LET cleared == clearScreen(w)
        repo == w.state.selectedRepos[1]
        editor == setProtection(NewEditor, w.state.currentProtection)
        shown == [cleared EXCEPT
                    !.state.screen = "editor",
                    !.component = [kind |-> "editor"] @@ editor,
                    !.same = IF w.state.currentProtection = Null THEN @
                             ELSE [slot \in Slots |->
                                    JoinTo(@[slot], "editor", "current")]]
    IN  setRepoInfo(OnlyObjects(shown), repo)

\* The counts of a summary line that takes every result for a failure.
renderResultsAllFailed(results) ==
    [total |-> Len(results), success |-> 0, failed |-> Len(results) + 1]

\* renderResults(): the counts of the summary line, success and failed counted
\* result by result, the total taken from the length of the list.
RECURSIVE CountResults(_, _, _)
CountResults(results, success, failed) ==
    IF results = <<>> THEN [success |-> success, failed |-> failed]
    ELSE IF Head(results).success
    THEN CountResults(Tail(results), success + 1, failed)
    ELSE CountResults(Tail(results), success, failed + 1)
renderResults(results) ==
    [total |-> Len(results),
     success |-> CountResults(results, 0, 0).success,
     failed |-> CountResults(results, 0, 0).failed]

\* setDiff(current, proposed) of a new preview pane.
NewPreview(current, proposed) ==
    [kind |-> "preview", current |-> current, proposed |-> proposed,
     results |-> <<>>, mode |-> "diff",
     diff |-> diffProtection(current, proposed)]

\* showPreview()
showPreview(w) ==
    IF w.state.proposedProtection = Null THEN w
    ELSE LET cleared == clearScreen(w)
         IN  [cleared EXCEPT
                !.state.screen = "preview",
                !.component = NewPreview(w.state.currentProtection,
                                         w.state.proposedProtection)]

\* One target only, for the first selected repository.
TargetsFirstOnly(state) ==
    <<[owner |-> state.selectedRepos[1].owner,
       repo |-> state.selectedRepos[1].name,
       branch |-> state.branch]>>

\* The targets of the apply: one per selected repository, with the stored branch.
Targets(state) ==
    [i \in 1..Len(state.selectedRepos) |->
        [owner |-> state.selectedRepos[i].owner,
         repo |-> state.selectedRepos[i].name,
         branch |-> state.branch]]

\* The confirm callback of the preview, up to its await.
previewConfirm(w) ==
    IF w.state.proposedProtection = Null THEN w
    ELSE Issue(showLoading(w),
               Op("apply", RunLoop(NewBatch(Targets(w.state),
                                            w.state.proposedProtection))))

\* The confirm callback goes on with a failure among the results shown as
\* the error of the screen.
applyReturnedShowingError(w, attached, results) ==
    LET stored == [w EXCEPT !.state.results = results]
        shown == IF attached
                 THEN [stored EXCEPT !.component.results = results,
                                     !.component.mode = "results"]
                 ELSE stored
    IN  IF \E n \in 1..Len(results) : ~results[n].success
        THEN showError(hideLoading(shown), <<"Failed to apply protection">>)
        ELSE hideLoading(shown)

\* The confirm callback of the preview after its await: the results are
\* stored and given to the pane (setResults).
applyReturned(w, attached, results) ==
    LET stored == [w EXCEPT !.state.results = results]
    IN  hideLoading(
            IF attached
            THEN [stored EXCEPT !.component.results = results,
                                !.component.mode = "results"]
            ELSE stored)

\* handleKey of the preview pane: the callback it calls.
previewHandleKey(component, key) ==
    IF key.name \in {"return", "enter"}
    THEN IF component.mode = "diff" THEN "confirm" ELSE "cancel"
    ELSE IF key.name = "escape" THEN "cancel"
    ELSE "none"

\* The editor part of the component on screen.
EditorOf(component) ==
    [f \in DOMAIN component \ {"kind"} |-> component[f]]

\* The value the holder has in the slot once the editor wrote its new value
\* into the object it holds there: the new value for who holds that object.
Written(w, editor, h, slot) ==
    IF /\ h \in BlockOf(w.same[slot], "editor")
       /\ HoldsObject(w, h, slot)
       /\ editor.protection[slot].t = "object"
    THEN editor.protection[slot]
    ELSE Config(w, h)[slot]

\* The world once the editor on screen went from its state to the given one:
\* a nested object it changed is changed for every holder of it, a slot it gave
\* another object or null is its own.
Edited(w, editor) ==
    LET written(h) ==
            IF Config(w, h) = Null THEN Null
            ELSE [Config(w, h) EXCEPT
                    !.required_pull_request_reviews =
                        Written(w, editor, h, "required_pull_request_reviews"),
                    !.required_status_checks =
                        Written(w, editor, h, "required_status_checks")]
    IN  OnlyObjects(
            [w EXCEPT
                !.state.currentProtection = written("current"),
                !.state.proposedProtection = written("proposed"),
                !.component = [kind |-> "editor"] @@ editor,
                !.same = [slot \in Slots |->
                            IF HoldsObject(w, "editor", slot)
                               /\ editor.protection[slot].t = "object"
                            THEN @[slot]
                            ELSE Detach(@[slot], "editor")]])

\* An onSave that stores the editor's configuration as it was created, the
\* default one.
editorSaveDefault(w) ==
    showPreview([w EXCEPT !.state.proposedProtection = createDefaultProtection])

\* An onSave that shows the preview of the editor's configuration and stores
\* no proposed configuration.
editorSaveUnstored(w) ==
    [clearScreen(w) EXCEPT
        !.state.screen = "preview",
        !.component = NewPreview(w.state.currentProtection,
                                 w.component.protection)]

\* onSave(state.protection): the stored proposed configuration is the editor's
\* protection itself.
editorSave(w) ==
    showPreview(
        [w EXCEPT !.state.proposedProtection = w.component.protection,
                  !.same = [slot \in Slots |->
                                JoinTo(@[slot], "proposed", "editor")]])

\* saveTemplate(`template-${Date.now()}`, protection, 'Saved from editor') as
\* the editor's key handler calls it, without awaiting it: the save asked for
\* is recorded, under the number of the save in place of the time.
saveTemplate(w, protection) ==
    [w EXCEPT !.templates =
        Append(@, [name |-> Len(@) + 1, protection |-> protection])]

\* showTemplates()
showTemplates(w) ==
    [clearScreen(w) EXCEPT !.state.screen = "templates",
                           !.component = [kind |-> "templates"]]

\* The key handler showEditor installs: the template shortcuts first, then the
\* editor's handleKey, which knows neither s nor t. (After Ctrl+T it is called
\* on the editor that left the screen.)
editorKey(w, key) ==
    LET shortcut ==
            IF key.ctrl /\ key.name = "s" /\ w.state.proposedProtection # Null
            THEN saveTemplate(w, w.state.proposedProtection)
            ELSE IF key.ctrl /\ key.name = "t" THEN showTemplates(w)
            ELSE w
        handled == handleKey(EditorOf(w.component), key)
        edited == Edited(shortcut, handled.editor)
    IN  IF shortcut.component.kind # "editor" THEN shortcut
        ELSE IF handled.signal = "save" THEN editorSave(edited)
        ELSE IF handled.signal = "cancel" THEN showBranchSelector(edited)
        ELSE edited

\* The template manager's onSelect callback up to its end: the template is the
\* proposed configuration, the editor is shown as showEditor() shows it, and
\* a timer of 50 ms is set.
templateSelected(w, protection) ==
    LET stored == [w EXCEPT !.state.proposedProtection = protection,
                            !.same = [slot \in Slots |->
                                        Detach(@[slot], "proposed")]]
    IN  Issue(showEditor(stored), Op("timer", protection))

\* The callback of the timer: when the component on screen is an editor, it is
\* given the template, whose nested objects are those of the proposed
\* configuration as long as that is still the template.
templateTimer(w, protection) ==
    IF w.component.kind # "editor" THEN w
    ELSE LET editor == setProtection(EditorOf(w.component), protection)
             given == [w EXCEPT
                         !.component = [kind |-> "editor"] @@ editor,
                         !.same = [slot \in Slots |->
                                    IF w.state.proposedProtection = protection
                                    THEN JoinTo(@[slot], "editor", "proposed")
                                    ELSE Detach(@[slot], "editor")]]
         IN  IF Len(w.state.selectedRepos) > 0
             THEN setRepoInfo(OnlyObjects(given), w.state.selectedRepos[1])
             ELSE OnlyObjects(given)

\* The template manager's onCancel callback.
templatesCancel(w) ==
    IF w.state.org # Null THEN showRepoSelector(w) ELSE showOrgSelector(w)

----------------------------------------------------------------------------
(* utils/templates: the template store. One file per name holds a template; *)
(* a save reads the file of the name, then writes it.                      *)

\* The names templates are saved under.
TemplateNames == {"basic"}

\* The templates directory without a file, no save in flight.
EmptyStore ==
    [files |-> [name \in TemplateNames |-> Null], saves |-> <<>>, clock |-> 0]

\* loadTemplate(name): the template of the file, null when there is none.
loadTemplate(st, name) == st.files[name]

\* A call of saveTemplate(name, protection, description), before its first
\* await ends.
SaveCall(name, protection, description) ==
    [name |-> name, protection |-> protection, description |-> description,
     at |-> "ensureConfigDir", template |-> Null]

\* The template saveTemplate builds once loadTemplate gave the existing one:
\* now is read then, and the text of the file is made then.
NewTemplate(call, existing, now) ==
    [name |-> call.name,
     description |-> IF Truthy(call.description) THEN call.description
                     ELSE IF existing = Null THEN Undef
                     ELSE existing.description,
     created_at |-> IF existing = Null THEN now ELSE existing.created_at,
     updated_at |-> now,
     protection |-> call.protection]

\* saveTemplate from the end of ensureConfigDir() to the call of writeFile.
TemplateBuilt(st, i) ==
    [st EXCEPT !.saves[i].at = "writeFile",
               !.saves[i].template =
                    NewTemplate(st.saves[i],
                                loadTemplate(st, st.saves[i].name), st.clock)]

\* writeFile ends: the file of the name holds the template, the call returns.
FileWritten(st, i) ==
    [st EXCEPT !.files[st.saves[i].name] = st.saves[i].template,
               !.saves = Remove(@, i)]

\* deleteTemplate(name): the file of the name is unlinked.
deleteTemplate(st, name) == [st EXCEPT !.files[name] = Null]

\* createDefaultTemplates(): basic, strict, unprotected.
createDefaultTemplates ==
    LET common == [EmptyObject EXCEPT
                      !.required_status_checks = Null,
                      !.enforce_admins = Bool(FALSE),
                      !.required_linear_history = Bool(FALSE),
                      !.allow_force_pushes = Bool(FALSE),
                      !.allow_deletions = Bool(FALSE),
                      !.required_conversation_resolution = Bool(TRUE)]
    IN  <<[common EXCEPT
             !.required_pull_request_reviews =
                 Rpr(Bool(FALSE), Bool(FALSE), Num(1))],
          [common EXCEPT
             !.required_pull_request_reviews =
                 Rpr(Bool(TRUE), Bool(TRUE), Num(2)),
             !.required_status_checks = Rsc(Bool(TRUE), Arr(<<>>)),
             !.enforce_admins = Bool(TRUE),
             !.required_linear_history = Bool(TRUE)],
          [common EXCEPT
             !.required_pull_request_reviews = Null,
             !.allow_force_pushes = Bool(TRUE),
             !.required_conversation_resolution = Bool(FALSE)]>>

----------------------------------------------------------------------------
(* The inputs the functions are checked on. *)

\* The (owner, repo, branch) triples target lists are made of.
TargetPool ==
    {[owner |-> "acme", repo |-> "api", branch |-> "main"],
     [owner |-> "acme", repo |-> "web", branch |-> "main"],
     [owner |-> "octo", repo |-> "api", branch |-> "dev"]}

\* The target lists: every sequence of at most MaxTargets triples.
TargetLists == UNION {[1..n -> TargetPool] : n \in 0..MaxTargets}

\* The responses of the protection endpoint: each flag comes as {enabled: b} or
\* not at all; the url, required_signatures and lock_branch come together.
RawResponses ==
    {[k \in Range(ProtectionKeys) |->
        CASE k = "url" -> IF live THEN Str(<<"protection-url">>) ELSE Undef
          [] k = "required_signatures" -> IF live THEN Enabled(Bool(TRUE)) ELSE Undef
          [] k = "lock_branch" -> IF live THEN Enabled(Bool(FALSE)) ELSE Undef
          [] k = "required_pull_request_reviews" -> rpr
          [] k = "required_status_checks" -> rsc
          [] k = "enforce_admins" -> admins
          [] k = "required_conversation_resolution" -> Enabled(Bool(TRUE))
          [] k = "restrictions" -> Null
          [] OTHER -> Enabled(Bool(FALSE))] :
        live \in BOOLEAN,
        rpr \in {Undef, Null, Rpr(Bool(FALSE), Bool(FALSE), Num(1)),
                 Rpr(Bool(TRUE), Bool(FALSE), Num(2))},
        rsc \in {Undef, Null, Rsc(Bool(FALSE), Arr(<<<<"ci/build">>, <<"ci/test">>>>)),
                 Rsc(Bool(FALSE), Arr(<<<<"ci/test">>, <<"ci/build">>>>))},
        admins \in {Undef, Enabled(Bool(TRUE)), Enabled(Bool(FALSE))}}

\* The live configurations getBranchProtection can return (null apart).
LiveConfigs == {transformProtectionResponse(raw) : raw \in RawResponses}

\* The configurations an editor or a template holds.
InputConfigs ==
    {[k \in Range(ProtectionKeys) |->
        CASE k = "required_pull_request_reviews" -> rpr
          [] k = "required_status_checks" -> rsc
          [] k = "enforce_admins" -> admins
          [] k = "restrictions" -> Null
          [] k \in Range(FlagKeys) -> FlagDefault(k)
          [] OTHER -> Undef] :
        rpr \in {Undef, Null, Rpr(Bool(FALSE), Bool(FALSE), Num(1)),
                 Rpr(Bool(TRUE), Bool(FALSE), Num(2))},
        rsc \in {Undef, Null, Rsc(Bool(FALSE), Arr(<<<<"ci/build">>, <<"ci/test">>>>)),
                 Rsc(Bool(FALSE), Arr(<<<<"ci/test">>, <<"ci/build">>>>))},
        admins \in {Undef, Bool(TRUE), Bool(FALSE)}}

\* The live configuration of the diff scenario.
ScenarioLive ==
    [EmptyObject EXCEPT !.enforce_admins = Bool(FALSE),
                        !.required_pull_request_reviews = Null]

\* The proposed configuration of the diff scenario.
ScenarioProposed ==
    [EmptyObject EXCEPT
        !.enforce_admins = Bool(TRUE),
        !.required_pull_request_reviews = Rpr(Bool(FALSE), Bool(FALSE), Num(1))]

\* The protection of the test 'preserves explicit values'.
ExplicitInput ==
    [EmptyObject EXCEPT
        !.enforce_admins = Bool(TRUE),
        !.allow_force_pushes = Bool(TRUE),
        !.required_pull_request_reviews = Rpr(Undef, Undef, Num(2))]

\* A live configuration with every live-only member set.
FullLive ==
    transformProtectionResponse(
        [k \in Range(ProtectionKeys) |->
            CASE k = "url" -> Str(<<"protection-url">>)
              [] k = "required_pull_request_reviews" ->
                    Rpr(Bool(TRUE), Bool(FALSE), Num(2))
              [] k \in {"required_status_checks", "restrictions"} -> Null
              [] k = "enforce_admins" -> Enabled(Bool(TRUE))
              [] k = "allow_deletions" -> Undef
              [] OTHER -> Enabled(Bool(FALSE))])

\* The protections the batch is called with.
BatchProtections ==
    {EmptyObject, ExplicitInput, createDefaultProtection, FullLive}

\* The live side of the diffs checked: null, the fetched configurations, the scenario.
DiffCurrents == {Null, ScenarioLive} \cup LiveConfigs

\* The proposed side of the diffs checked: what an editor seeded with a default
\* or a template holds, and the copies of the live configurations.
DiffProposals == {ScenarioProposed} \cup InputConfigs \cup (DiffCurrents \ {Null})

----------------------------------------------------------------------------
(* State. *)

VARIABLES
    batch,      \* the run of applyProtectionToMultiple under check
    diffIn,     \* the arguments of diffProtection under check
    diffOut,    \* its result, Undef before the call
    apiIn,      \* the raw response and the configuration under check
    apiOut,     \* what the functions of api/github made of them
    state,      \* the state object of runApp
    currentScreenComponent,  \* the component on screen, with its own state
    pending,    \* the operations in flight, oldest first
    screens,    \* how many screens were shown so far
    same,       \* which configurations hold the same nested objects
    edits,      \* how many times the editor's configuration was changed
    templates,  \* the saves the editor asked the template store for, oldest first
    store       \* the template store: its files, the saves in flight, the clock

appVars ==
    <<state, currentScreenComponent, pending, screens, same, edits, templates>>

apiVars == <<apiIn, apiOut>>

vars == <<batch, diffIn, diffOut, apiVars, appVars, store>>

\* No function of api/github under check.
NoApiOut == [normalized |-> Undef, first |-> Undef, normal |-> Undef, second |-> Undef]
NoApi ==
    /\ apiIn = [raw |-> EmptyObject, config |-> EmptyObject]
    /\ apiOut = NoApiOut

\* The application not started.
NoApp ==
    /\ state = InitialState
    /\ currentScreenComponent = NoComponent
    /\ pending = <<>>
    /\ screens = 0
    /\ same = Apart
    /\ edits = 0
    /\ templates = <<>>
    /\ store = EmptyStore

\* No batch under check.
NoBatch == [NewBatch(<<>>, EmptyObject) EXCEPT !.returned = TRUE]

\* No diff under check.
NoDiff == [current |-> Null, proposed |-> EmptyObject]

----------------------------------------------------------------------------
(* The batch apply on its own. *)

InitBatch ==
    /\ batch \in {NewBatch(targets, protection) :
                    targets \in TargetLists, protection \in BatchProtections}
    /\ diffIn = NoDiff
    /\ diffOut = Undef
    /\ NoApi
    /\ NoApp

\* applyProtectionToMultiple is called: the loop runs to its first await.
ApplyCall ==
    /\ batch.sent = <<>> /\ ~batch.returned
    /\ batch' = RunLoop(batch)
    /\ UNCHANGED <<store, diffIn, diffOut, apiVars, appVars>>

\* An awaited update ends, with any outcome.
UpdateSettles ==
    /\ \E i \in batch.inflight, outcome \in Outcomes :
          batch' = Settle(batch, i, outcome)
    /\ UNCHANGED <<store, diffIn, diffOut, apiVars, appVars>>

NextBatch == ApplyCall \/ UpdateSettles

SpecBatch == InitBatch /\ [][NextBatch]_vars

----------------------------------------------------------------------------
(* The diff on its own. *)

InitDiff ==
    /\ batch = NoBatch
    /\ diffIn \in [current : DiffCurrents, proposed : DiffProposals]
    /\ diffOut = Undef
    /\ NoApi
    /\ NoApp

\* renderDiff calls diffProtection(state.current, state.proposed).
RenderDiff ==
    /\ diffOut = Undef
    /\ diffOut' = diffProtection(diffIn.current, diffIn.proposed)
    /\ UNCHANGED <<store, batch, diffIn, apiVars, appVars>>

NextDiff == RenderDiff

SpecDiff == InitDiff /\ [][NextDiff]_vars

----------------------------------------------------------------------------
(* The functions of api/github on their own: a raw response is transformed; *)
(* a configuration is made a request body, the body is read back as a      *)
(* response and transformed, and the result is made a request body again.  *)

\* What a response can hold for a flag: nothing, null, a boolean, the object
\* the API sends (with or without other members), and values of other shapes.
FlagEncodings ==
    {Undef, Null, Bool(TRUE), Bool(FALSE), Enabled(Bool(TRUE)), Enabled(Bool(FALSE)),
     [t |-> "object", enabled |-> Bool(TRUE), url |-> Str(<<"...">>)],
     [t |-> "object", url |-> Str(<<"...">>)],
     Str(<<"string">>), Num(42)}

\* The raw responses transformProtectionResponse is checked on.
ApiResponses ==
    {[k \in Range(ProtectionKeys) |->
        CASE k = "enforce_admins" -> admins
          [] k = "required_conversation_resolution" -> resolution
          [] k = "required_signatures" -> signatures
          [] k = "required_pull_request_reviews" -> rpr
          [] k = "required_status_checks" -> rpr
          [] k \in {"url", "restrictions", "allow_deletions", "lock_branch"} -> Undef
          [] OTHER -> Enabled(Bool(FALSE))] :
        admins \in FlagEncodings, resolution \in FlagEncodings,
        signatures \in {Undef, Null, Bool(FALSE), Enabled(Bool(TRUE))},
        rpr \in {Undef, Null}}

\* The values a flag of a configuration holds: a boolean, nothing, or the null
\* transformProtectionResponse gives a flag the response did not have.
FlagValues == {Undef, Null, Bool(TRUE), Bool(FALSE)}

\* The configurations the request body is built from.
ApiConfigs ==
    {[k \in Range(ProtectionKeys) |->
        CASE k = "enforce_admins" -> flags[1]
          [] k = "required_linear_history" -> flags[2]
          [] k = "allow_force_pushes" -> flags[3]
          [] k = "required_conversation_resolution" -> flags[4]
          [] k = "allow_deletions" -> Bool(TRUE)
          [] k = "required_pull_request_reviews" -> Rpr(Undef, Undef, Num(2))
          [] OTHER -> Undef] :
        flags \in [1..4 -> FlagValues]}

\* A request body read as a response: the members it has not are undefined.
AsResponse(body) ==
    [k \in Range(ProtectionKeys) |-> IF k \in DOMAIN body THEN body[k] ELSE Undef]

InitApi ==
    /\ batch = NoBatch
    /\ diffIn = NoDiff
    /\ diffOut = Undef
    /\ NoApp
    /\ apiIn \in [raw : ApiResponses, config : {EmptyObject}]
                 \cup [raw : {EmptyObject}, config : ApiConfigs]
    /\ apiOut = NoApiOut

\* transformProtectionResponse(raw)
Transform ==
    /\ apiOut.normalized = Undef
    /\ apiOut' = [apiOut EXCEPT !.normalized = transformProtectionResponse(apiIn.raw)]
    /\ UNCHANGED <<store, batch, diffIn, diffOut, apiIn, appVars>>

\* The body updateBranchProtection builds from the configuration.
Submit ==
    /\ apiOut.first = Undef
    /\ apiOut' = [apiOut EXCEPT !.first = cleanInput(apiIn.config)]
    /\ UNCHANGED <<store, batch, diffIn, diffOut, apiIn, appVars>>

\* The body comes back as a response and is transformed.
Normalize ==
    /\ apiOut.first # Undef
    /\ apiOut.normal = Undef
    /\ apiOut' = [apiOut EXCEPT
                    !.normal = transformProtectionResponse(AsResponse(apiOut.first))]
    /\ UNCHANGED <<store, batch, diffIn, diffOut, apiIn, appVars>>

\* The body updateBranchProtection builds from the transformed response.
Resubmit ==
    /\ apiOut.normal # Undef
    /\ apiOut.second = Undef
    /\ apiOut' = [apiOut EXCEPT !.second = cleanInput(apiOut.normal)]
    /\ UNCHANGED <<store, batch, diffIn, diffOut, apiIn, appVars>>

NextApi == Transform \/ Submit \/ Normalize \/ Resubmit

SpecApi == InitApi /\ [][NextApi]_vars

----------------------------------------------------------------------------
(* The application: runApp and the events it reacts to. *)

\* The world the variables hold.
World ==
    [state |-> state, component |-> currentScreenComponent, pending |-> pending,
     screens |-> screens, same |-> same, templates |-> templates]

\* The variables take the world's parts.
Becomes(w) ==
    /\ Len(w.pending) <= MaxPending
    /\ w.screens <= MaxScreens
    /\ Len(w.templates) <= MaxTemplates
    /\ screens' = w.screens
    /\ templates' = w.templates
    /\ same' = w.same
    /\ state' = w.state
    /\ currentScreenComponent' = w.component
    /\ pending' = w.pending

\* The world when the operation at index i has just completed.
Completed(i) == [World EXCEPT !.pending = Remove(@, i)]

\* The keys pressed.
Key(name, shift, ctrl) == [name |-> name, shift |-> shift, ctrl |-> ctrl]
Keys ==
    {Key(name, FALSE, FALSE) :
        name \in {"return", "escape", "tab", "up", "down", "j", "k", "space", "d"}}
    \cup {Key("tab", TRUE, FALSE), Key("a", FALSE, TRUE)}

\* The keys that move the focus of the editor.
FocusKeys == {key \in Keys : key.name \in {"tab", "up", "down", "j", "k"}}

\* The texts an input of the editor is given.
InputTexts ==
    {<<"3">>, <<"-", "1">>, <<"x">>, <<"1", "x", "2">>, <<>>,
     <<"ci/lint">>, <<"a", ",", " ", "a">>, <<"a", ",">>}

\* text.includes(piece)
Contains(text, piece) ==
    \E i \in 1..(Len(text) - Len(piece) + 1) :
        SubSeq(text, i, i + Len(piece) - 1) = piece

\* How a call of gh ends in the application: it resolves, or it throws an Error.
FetchOutcomes == {outcome \in Outcomes : outcome.kind # "thrown"}

\* The answers of the protection endpoint: a protected branch with reviews and
\* status checks, no protection (404), or another failure.
ProtectionResponses ==
    {[kind |-> "ok", message |-> <<>>, raw |-> raw] :
        raw \in {r \in RawResponses :
                    /\ r.url # Undef
                    /\ r.enforce_admins = Enabled(Bool(TRUE))
                    /\ r.required_status_checks =
                          Rsc(Bool(FALSE), Arr(<<<<"ci/build">>, <<"ci/test">>>>))
                    /\ r.required_pull_request_reviews =
                          Rpr(Bool(TRUE), Bool(FALSE), Num(2))}}
    \cup {[kind |-> "error", message |-> <<"HTTP", " ", "4", "0", "4">>, raw |-> Null],
          [kind |-> "error", message |-> <<"HTTP 422">>, raw |-> Null]}

\* getBranchProtection: the transformed answer, null when the failure tells
\* that there is no protection, the failure itself otherwise.
getBranchProtection(response) ==
    LET msg == IF response.kind = "error" THEN response.message ELSE <<>>
    IN  IF response.kind = "ok"
        THEN [kind |-> "ok", message |-> <<>>,
              value |-> transformProtectionResponse(response.raw)]
        ELSE IF Contains(msg, <<"4", "0", "4">>)
                \/ Contains(msg, <<"Not", " ", "Found">>)
        THEN [kind |-> "ok", message |-> <<>>, value |-> Null]
        ELSE [kind |-> response.kind, message |-> response.message, value |-> Undef]

\* runApp up to its first await.
InitApp ==
    /\ batch = NoBatch
    /\ diffIn = NoDiff
    /\ diffOut = Undef
    /\ NoApi
    /\ edits = 0
    /\ \E localMode \in BOOLEAN :
          LET w == IF localMode
                   THEN Issue(showLoading(InitialWorld), Op("detect", Null))
                   ELSE showOrgSelector(InitialWorld)
          IN  /\ state = w.state
              /\ currentScreenComponent = w.component
              /\ pending = w.pending
              /\ screens = w.screens
              /\ same = w.same
              /\ templates = w.templates
              /\ store = EmptyStore

\* detectLocalRepo() ends: with the repository of the directory, or with null.
DetectSettles ==
    /\ \E i \in 1..Len(pending),
          localRepo \in {Null, [owner |-> "acme", repo |-> "api"]} :
          /\ pending[i].kind = "detect"
          /\ Becomes(
                IF localRepo # Null
                THEN showBranchSelector(hideLoading(
                        [Completed(i) EXCEPT
                            !.state.org = [login |-> localRepo.owner],
                            !.state.selectedRepos =
                                <<[name |-> localRepo.repo,
                                   owner |-> localRepo.owner]>>]))
                ELSE showOrgSelector(showError(hideLoading(Completed(i)),
                        <<"Not in a git repository or gh not configured">>)))
    /\ UNCHANGED <<store, batch, diffIn, diffOut, apiVars, edits>>

\* getOrganizations() ends.
OrgsSettle ==
    /\ \E i \in 1..Len(pending), outcome \in FetchOutcomes :
          /\ pending[i].kind = "orgs"
          /\ Becomes(
                IF outcome.kind = "ok"
                THEN hideLoading(
                        IF pending[i].attached
                        THEN [Completed(i) EXCEPT !.component.options = OrgList]
                        ELSE Completed(i))
                ELSE showError(hideLoading(Completed(i)),
                        ErrorMessage(outcome, <<"Failed to load organizations">>)))
    /\ UNCHANGED <<store, batch, diffIn, diffOut, apiVars, edits>>

\* getOrgRepos(login) ends.
ReposSettle ==
    /\ \E i \in 1..Len(pending), outcome \in FetchOutcomes :
          /\ pending[i].kind = "repos"
          /\ LET repos == RepoList(pending[i].arg)
                 stored == [Completed(i) EXCEPT !.state.repos = repos]
                 items == [n \in 1..Len(repos) |->
                            [repo |-> repos[n], selected |-> FALSE]]
             IN  Becomes(
                    IF outcome.kind = "ok"
                    THEN hideLoading(
                            IF pending[i].attached
                            THEN [stored EXCEPT !.component.repos = items]
                            ELSE stored)
                    ELSE showError(hideLoading(Completed(i)),
                            ErrorMessage(outcome, <<"Failed to load repositories">>)))
    /\ UNCHANGED <<store, batch, diffIn, diffOut, apiVars, edits>>

\* getRepoBranches(owner, repo) ends.
BranchesSettle ==
    /\ \E i \in 1..Len(pending), outcome \in FetchOutcomes :
          /\ pending[i].kind = "branches"
          /\ Becomes(
                IF outcome.kind = "ok"
                THEN hideLoading(
                        IF pending[i].attached
                        THEN [Completed(i) EXCEPT !.component.options = BranchList]
                        ELSE Completed(i))
                ELSE showError(hideLoading(Completed(i)),
                        ErrorMessage(outcome, <<"Failed to load branches">>)))
    /\ UNCHANGED <<store, batch, diffIn, diffOut, apiVars, edits>>

\* getBranchProtection(owner, repo, branch) ends: the editor is shown, whatever
\* the screen is by now.
ProtectionSettles ==
    /\ \E i \in 1..Len(pending), response \in ProtectionResponses :
          /\ pending[i].kind = "protection"
          /\ LET outcome == getBranchProtection(response)
             IN  Becomes(
                    IF outcome.kind = "ok"
                    THEN showEditor(hideLoading(
                            [Completed(i) EXCEPT
                                !.state.currentProtection = outcome.value,
                                !.same = [slot \in Slots |->
                                            Detach(@[slot], "current")]]))
                    ELSE showError(hideLoading(Completed(i)),
                            ErrorMessage(outcome, <<"Failed to load protection">>)))
    /\ UNCHANGED <<store, batch, diffIn, diffOut, apiVars, edits>>

\* getRepoWorkflows(owner, repo) ends with the workflows: the editor that
\* asked for them stores them and renders its fields.
WorkflowsSettleWith(workflows) ==
    /\ \E i \in 1..Len(pending) :
          /\ pending[i].kind = "workflows"
          /\ Becomes(
                IF pending[i].attached
                THEN [Completed(i) EXCEPT
                        !.component = [kind |-> "editor"] @@
                            renderFields([EditorOf(@) EXCEPT
                                            !.workflows = workflows])]
                ELSE Completed(i))
    /\ UNCHANGED <<store, batch, diffIn, diffOut, apiVars, edits>>

\* getRepoWorkflows(owner, repo) ends with the workflows of the repository.
\* (When it fails it gives no workflow, which leaves an editor that asked once
\* as it is while the call is awaited.)
WorkflowsSettle == WorkflowsSettleWith(WorkflowList)

\* getRepoWorkflows(owner, repo) fails, or finds no workflow: it gives [].
WorkflowsFail == WorkflowsSettleWith(<<>>)

\* An update of a pending apply ends; when it was the last one,
\* applyProtectionToMultiple returns and the confirm callback goes on.
ApplySettles ==
    /\ \E i \in 1..Len(pending) :
          /\ pending[i].kind = "apply"
          /\ \E j \in pending[i].arg.inflight, outcome \in FetchOutcomes :
                LET run == Settle(pending[i].arg, j, outcome)
                IN  Becomes(
                        IF ~run.returned
                        THEN [World EXCEPT !.pending[i].arg = run]
                        ELSE applyReturned(Completed(i), pending[i].attached,
                                           run.results))
    /\ UNCHANGED <<store, batch, diffIn, diffOut, apiVars, edits>>

\* ITEM_SELECTED of the organization select.
OrgChosen ==
    /\ currentScreenComponent.kind = "orgs"
    /\ \E n \in 1..Len(currentScreenComponent.options) :
          Becomes(showRepoSelector(
            [World EXCEPT !.state.org = currentScreenComponent.options[n]]))
    /\ UNCHANGED <<store, batch, diffIn, diffOut, apiVars, edits>>

\* The selected repositories of the repository selector, in list order.
RECURSIVE SelectedRepos(_)
SelectedRepos(items) ==
    IF items = <<>> THEN <<>>
    ELSE (IF Head(items).selected THEN <<Head(items).repo>> ELSE <<>>)
         \o SelectedRepos(Tail(items))

\* ITEM_SELECTED of the repository select.
ReposConfirmed ==
    /\ currentScreenComponent.kind = "repos"
    /\ Len(currentScreenComponent.repos) > 0
    /\ LET selectedRepos == SelectedRepos(currentScreenComponent.repos)
       IN  Becomes(IF Len(selectedRepos) > 0
                   THEN showBranchSelector(
                          [World EXCEPT !.state.selectedRepos = selectedRepos])
                   ELSE World)
    /\ UNCHANGED <<store, batch, diffIn, diffOut, apiVars, edits>>

\* The key is pressed on the repository screen; idx is where the cursor of
\* the select is.
ReposKeyPress(key) ==
    /\ currentScreenComponent.kind = "repos"
    /\ \E idx \in {-1} \cup (0..(Len(currentScreenComponent.repos) - 1)) :
          /\ Becomes(
                IF key.name = "space"
                THEN IF idx >= 0 /\ idx < Len(currentScreenComponent.repos)
                     THEN [World EXCEPT !.component.repos[idx + 1].selected = ~@]
                     ELSE World
                ELSE IF key.name = "escape" THEN showOrgSelector(World)
                ELSE World)
    /\ UNCHANGED <<store, batch, diffIn, diffOut, apiVars, edits>>

\* A key on the repository screen (the keys that move the cursor of a select
\* reach no handleKey branch; idx stands for where they left the cursor).
ReposKey == \E key \in Keys \ FocusKeys : ReposKeyPress(key)

\* ITEM_SELECTED of the branch select: the branch is stored and its protection
\* asked for. (before is the branch stored when the branch was chosen; nothing
\* reads it but the statements about a fetch that fails.)
BranchChosen ==
    /\ currentScreenComponent.kind = "branches"
    /\ \E n \in 1..Len(currentScreenComponent.options) :
          LET branch == currentScreenComponent.options[n]
          IN  Becomes(Issue(
                showLoading([World EXCEPT !.state.branch = branch]),
                Op("protection",
                   [repo |-> currentScreenComponent.repo, branch |-> branch,
                    before |-> state.branch])))
    /\ UNCHANGED <<store, batch, diffIn, diffOut, apiVars, edits>>

\* The key is pressed on the branch screen.
BranchesKeyPress(key) ==
    /\ currentScreenComponent.kind = "branches"
    /\ Becomes(IF key.name = "escape" THEN showRepoSelector(World) ELSE World)
    /\ UNCHANGED <<store, batch, diffIn, diffOut, apiVars, edits>>

\* A key on the branch screen.
BranchesKey == \E key \in Keys \ FocusKeys : BranchesKeyPress(key)

\* The key is pressed on the editor screen.
EditorKeyPress(key) ==
    /\ currentScreenComponent.kind = "editor"
    /\ LET w == editorKey(World, key)
           changed == /\ w.component.kind = "editor"
                      /\ w.component.protection # currentScreenComponent.protection
       IN  /\ changed => edits < MaxEdits
           /\ Becomes(w)
           /\ edits' = IF changed THEN edits + 1 ELSE edits
    /\ UNCHANGED <<store, batch, diffIn, diffOut, apiVars>>

\* A key of the set on the editor screen.
EditorKeyOf(keys) == \E key \in keys : EditorKeyPress(key)

\* A key on the editor screen, in the flow of the screens: the focus stays on
\* the first field.
EditorKey == EditorKeyOf(Keys \ FocusKeys)

\* The keys the editor on its own is given: j, k and d do what down, up and
\* space do there.
EditorKeys == {key \in Keys : key.name \notin {"j", "k", "d"}}

\* A key on the editor screen, of any kind.
EditorFocusKey == EditorKeyOf(EditorKeys)

\* INPUT of the focused input of the editor, with the text.
EditorInputOf(val) ==
    /\ currentScreenComponent.kind = "editor"
    /\ FocusedInput(EditorOf(currentScreenComponent)) # Undef
    /\ edits < MaxEdits
    /\ LET e == EditorOf(currentScreenComponent)
           edited == IF FocusedField(e).type = "number"
                     THEN NumberInput(e, val) ELSE StringInput(e, val)
       IN  Becomes(Edited(World, edited))
    /\ edits' = edits + 1
    /\ UNCHANGED <<store, batch, diffIn, diffOut, apiVars>>

\* INPUT of the focused input of the editor.
EditorInput == \E val \in InputTexts : EditorInputOf(val)

\* The key is pressed on the preview screen.
PreviewKeyPress(key) ==
    /\ currentScreenComponent.kind = "preview"
    /\ LET callback == previewHandleKey(currentScreenComponent, key)
       IN  Becomes(IF callback = "confirm" THEN previewConfirm(World)
                   ELSE IF callback = "cancel" THEN showEditor(World)
                   ELSE World)
    /\ UNCHANGED <<store, batch, diffIn, diffOut, apiVars, edits>>

\* A key on the preview screen.
PreviewKey == \E key \in Keys \ FocusKeys : PreviewKeyPress(key)

Next ==
    \/ DetectSettles \/ OrgsSettle \/ ReposSettle \/ BranchesSettle
    \/ ProtectionSettles \/ WorkflowsSettle \/ ApplySettles
    \/ OrgChosen \/ ReposConfirmed \/ ReposKey \/ BranchChosen \/ BranchesKey
    \/ EditorKey \/ PreviewKey

Spec == InitApp /\ [][Next]_vars

----------------------------------------------------------------------------
(* The editor on its own: the editor screen as the protection fetch leaves *)
(* it, then the keys and the texts the editor is given.                    *)

\* A fetched protection without reviews, with one status check.
OneCheckLive ==
    transformProtectionResponse(
        [k \in Range(ProtectionKeys) |->
            CASE k = "url" -> Str(<<"protection-url">>)
              [] k = "required_status_checks" -> Rsc(Bool(TRUE), Arr(<<<<"ci/build">>>>))
              [] k \in {"required_pull_request_reviews", "restrictions"} -> Null
              [] k = "enforce_admins" -> Enabled(Bool(TRUE))
              [] k \in {"required_signatures", "lock_branch"} -> Undef
              [] OTHER -> Enabled(Bool(FALSE))])

\* The live side the editor is seeded from: no protection, or a fetched one.
EditorSeeds ==
    {getBranchProtection(response).value :
        response \in {r \in ProtectionResponses :
                        getBranchProtection(r).kind = "ok"}}
    \cup {OneCheckLive}

\* showEditor() as the branch selector's callback calls it, for the first
\* repository of the organization.
InitEditor ==
    /\ batch = NoBatch
    /\ diffIn = NoDiff
    /\ diffOut = Undef
    /\ NoApi
    /\ edits = 0
    /\ \E current \in EditorSeeds :
          LET login == OrgList[1].login
              w == showEditor(
                    [InitialWorld EXCEPT
                        !.state.screen = "branches",
                        !.state.org = OrgList[1],
                        !.state.repos = RepoList(login),
                        !.state.selectedRepos = <<RepoList(login)[1]>>,
                        !.state.branch = BranchList[1],
                        !.state.currentProtection = current,
                        !.screens = 3])
          IN  /\ state = w.state
              /\ currentScreenComponent = w.component
              /\ pending = w.pending
              /\ screens = w.screens
              /\ same = w.same
              /\ templates = w.templates
              /\ store = EmptyStore

NextEditor == EditorFocusKey \/ EditorInput \/ WorkflowsSettle

SpecEditor == InitEditor /\ [][NextEditor]_vars

----------------------------------------------------------------------------
(* The templates: the editor screen with its template shortcuts, the       *)
(* templates screen and the timer the choice of a template sets.           *)

\* The keys of the template shortcuts.
CtrlS == Key("s", FALSE, TRUE)
CtrlT == Key("t", FALSE, TRUE)

\* The configurations of the templates the template manager lists: those
\* initializeDefaultTemplates() saved.
TemplateConfigs == Range(createDefaultTemplates)

\* The template manager calls onSelect with the configuration of a template.
TemplateChosenOf(protection) ==
    /\ currentScreenComponent.kind = "templates"
    /\ Becomes(templateSelected(World, protection))
    /\ UNCHANGED <<store, batch, diffIn, diffOut, apiVars, edits>>

\* A template is chosen on the templates screen.
TemplateChosen ==
    \E protection \in TemplateConfigs : TemplateChosenOf(protection)

\* The template manager calls onCancel.
TemplatesCancel ==
    /\ currentScreenComponent.kind = "templates"
    /\ Becomes(templatesCancel(World))
    /\ UNCHANGED <<store, batch, diffIn, diffOut, apiVars, edits>>

\* The timer at index i of the operations in flight fires.
TimerFiresAt(i) ==
    /\ i \in 1..Len(pending)
    /\ pending[i].kind = "timer"
    /\ Becomes(templateTimer(Completed(i), pending[i].arg))
    /\ UNCHANGED <<store, batch, diffIn, diffOut, apiVars, edits>>

\* A timer fires.
TimerFires == \E i \in 1..MaxPending : TimerFiresAt(i)

\* The keys the editor is given next to the templates: Enter on the focused
\* field, Ctrl+A and the template shortcuts.
TemplatesEditorKeys ==
    {Key("return", FALSE, FALSE), Key("a", FALSE, TRUE), CtrlS, CtrlT}

\* A key on the editor screen.
TemplatesEditorKey == EditorKeyOf(TemplatesEditorKeys)

\* A key on the preview screen: Esc, and the key of the save shortcut.
TemplatesPreviewKey ==
    \E key \in {Key("escape", FALSE, FALSE), CtrlS} : PreviewKeyPress(key)

\* showEditor() as the branch selector's callback calls it in local mode,
\* where the branches of the detected repository are the first screen.
InitTemplates ==
    /\ batch = NoBatch
    /\ diffIn = NoDiff
    /\ diffOut = Undef
    /\ NoApi
    /\ edits = 0
    /\ \E current \in EditorSeeds :
          LET w == showEditor(
                    [InitialWorld EXCEPT
                        !.state.screen = "branches",
                        !.state.org = [login |-> "acme"],
                        !.state.selectedRepos =
                            <<[name |-> "api", owner |-> "acme"]>>,
                        !.state.branch = BranchList[1],
                        !.state.currentProtection = current,
                        !.screens = 1])
          IN  /\ state = w.state
              /\ currentScreenComponent = w.component
              /\ pending = w.pending
              /\ screens = w.screens
              /\ same = w.same
              /\ templates = w.templates
              /\ store = EmptyStore

NextTemplates ==
    \/ TemplatesEditorKey \/ TemplatesPreviewKey \/ TemplateChosen
    \/ TemplatesCancel \/ TimerFires \/ WorkflowsSettle

SpecTemplates == InitTemplates /\ [][NextTemplates]_vars

----------------------------------------------------------------------------
(* The focus of an editor the templates gave a configuration to: the lists *)
(* of workflows its calls of setRepoInfo ask for arrive, or the calls fail, *)
(* while the focus is moved.                                               *)

\* The keys that move the focus up and show the templates.
FocusEditorKeys == {Key("up", FALSE, FALSE), CtrlT}

\* A key on the editor screen.
FocusEditorKey == EditorKeyOf(FocusEditorKeys)

NextFocus ==
    \/ FocusEditorKey \/ TemplateChosen \/ TimerFires
    \/ WorkflowsSettle \/ WorkflowsFail

SpecFocus == InitTemplates /\ [][NextFocus]_vars

----------------------------------------------------------------------------
(* The flow of the screens with the templates screen: Ctrl+T on the editor  *)
(* shows it, a template chosen or Esc leaves it.                            *)

\* Ctrl+T is pressed on the editor screen.
TemplatesShortcut == EditorKeyPress(CtrlT)

NextFlow ==
    \/ Next \/ TemplatesShortcut \/ TemplateChosen \/ TemplatesCancel
    \/ TimerFires

SpecFlow == InitApp /\ [][NextFlow]_vars

----------------------------------------------------------------------------
(* The template store on its own: saves and deletes, as any caller issues  *)
(* them, and the clock.                                                    *)

\* The protections and the descriptions templates are saved with.
SavedProtections ==
    {[EmptyObject EXCEPT !.enforce_admins = Bool(admins)] : admins \in BOOLEAN}
SavedDescriptions == {Undef, Str(<<"Saved from editor">>)}

InitStore ==
    /\ batch = NoBatch
    /\ diffIn = NoDiff
    /\ diffOut = Undef
    /\ NoApi
    /\ NoApp

\* saveTemplate is called.
SaveCalled ==
    /\ Len(store.saves) < MaxPending
    /\ \E name \in TemplateNames, protection \in SavedProtections,
          description \in SavedDescriptions :
          store' = [store EXCEPT
                      !.saves = Append(@, SaveCall(name, protection, description))]
    /\ UNCHANGED <<batch, diffIn, diffOut, apiVars, appVars>>

\* ensureConfigDir() of the save at index i ends.
DirEnsuredAt(i) ==
    /\ i \in 1..Len(store.saves)
    /\ store.saves[i].at = "ensureConfigDir"
    /\ store' = [store EXCEPT !.saves[i].at = "loadTemplate"]
    /\ UNCHANGED <<batch, diffIn, diffOut, apiVars, appVars>>

\* loadTemplate(name) of the save at index i ends.
TemplateLoadedAt(i) ==
    /\ i \in 1..Len(store.saves)
    /\ store.saves[i].at = "loadTemplate"
    /\ store' = TemplateBuilt(store, i)
    /\ UNCHANGED <<batch, diffIn, diffOut, apiVars, appVars>>

\* writeFile of the save at index i ends.
FileWrittenAt(i) ==
    /\ i \in 1..Len(store.saves)
    /\ store.saves[i].at = "writeFile"
    /\ store' = FileWritten(store, i)
    /\ UNCHANGED <<batch, diffIn, diffOut, apiVars, appVars>>

\* deleteTemplate is called for a name, and ends.
TemplateDeleted ==
    /\ \E name \in TemplateNames : store' = deleteTemplate(store, name)
    /\ UNCHANGED <<batch, diffIn, diffOut, apiVars, appVars>>

\* A millisecond passes.
Tick ==
    /\ store.clock < MaxClock
    /\ store' = [store EXCEPT !.clock = @ + 1]
    /\ UNCHANGED <<batch, diffIn, diffOut, apiVars, appVars>>

NextStore ==
    \/ SaveCalled
    \/ \E i \in 1..MaxPending :
            DirEnsuredAt(i) \/ TemplateLoadedAt(i) \/ FileWrittenAt(i)
    \/ TemplateDeleted \/ Tick

SpecStore == InitStore /\ [][NextStore]_vars

----------------------------------------------------------------------------
(* Claims about the batch apply (SpecBatch). *)

\* The outcome the update of target i ended with.
OutcomeOf(i) ==
    (CHOOSE e \in Range(batch.settled) : e.index = i).outcome

\* Result i is the result of target i and tells how its update ended.
ResultMatches(i) ==
    LET result == batch.results[i]
        target == batch.targets[i]
        ok == OutcomeOf(i).kind = "ok"
    IN  /\ result.repo.owner.login = target.owner
        /\ result.repo.name = target.repo
        /\ result.repo.full_name = <<target.owner, "/", target.repo>>
        /\ result.branch = target.branch
        /\ result.success = ok
        /\ (result.error # Undef) = ~ok

\* C1: the list applyProtectionToMultiple returns has one entry per target, in
\* the order of the targets; entry i carries the owner, repo and branch of
\* target i, has success = true iff the update of target i succeeded, and
\* carries an error message iff it failed.
C1_BatchResultPerTarget ==
    /\ Len(batch.results) <= Len(batch.targets)
    /\ \A i \in 1..Len(batch.results) :
          /\ \E e \in Range(batch.settled) : e.index = i
          /\ ResultMatches(i)
    /\ batch.returned => Len(batch.results) = Len(batch.targets)

\* C1 witness: a batch of three targets has returned, with a failure and a success.
C1_Witness ==
    /\ batch.returned
    /\ Len(batch.targets) = 3
    /\ \E i, j \in 1..3 : batch.results[i].success /\ ~batch.results[j].success

\* C2: a failed update of target i never ends the batch: target i + 1 is
\* attempted at once, and when the batch returns every later target has a
\* result telling how its own update ended.
C2_BatchNoShortCircuit ==
    \A i \in 1..Len(batch.results) :
        (~batch.results[i].success /\ i < Len(batch.targets)) =>
            /\ Len(batch.sent) > i
            /\ batch.returned =>
                  \A j \in (i + 1)..Len(batch.targets) :
                      /\ j <= Len(batch.results)
                      /\ batch.results[j].success = (OutcomeOf(j).kind = "ok")

\* C2 witness: three targets with outcomes ok, fail, ok gave success, failure,
\* success.
C2_Witness ==
    /\ batch.returned
    /\ Len(batch.results) = 3
    /\ batch.results[1].success
    /\ ~batch.results[2].success
    /\ batch.results[3].success
    /\ OutcomeOf(2).kind = "error"

\* C3: the updates of a batch are issued one at a time in the order of the
\* targets: at most one is awaited, request k is the request of target k, and
\* the update of target i is awaited only when the updates of all targets
\* before it have ended.
C3_BatchSequential ==
    /\ Cardinality(batch.inflight) <= 1
    /\ Len(batch.sent) <= Len(batch.settled) + 1
    /\ \A k \in 1..Len(batch.sent) :
          /\ batch.sent[k].owner = batch.targets[k].owner
          /\ batch.sent[k].repo = batch.targets[k].repo
          /\ batch.sent[k].branch = batch.targets[k].branch
    /\ \A i \in batch.inflight :
          /\ Len(batch.sent) = i
          /\ Len(batch.results) = i - 1
          /\ \A k \in 1..Len(batch.settled) : batch.settled[k].index = k

\* C3 witness: the update of the second of three targets is awaited.
C3_Witness ==
    /\ Len(batch.targets) = 3
    /\ batch.inflight = {2}

\* C10: every body sent to the remote API has exactly the nine submission
\* keys; a member the input leaves out or holds null is sent as null
\* (substructures) or as its default (flags), a given value is sent as given,
\* and url, required_signatures and lock_branch are never sent.
C10_SubmissionRecord ==
    \A n \in 1..Len(batch.sent) :
        LET body == batch.sent[n].body
            protection == batch.protection
        IN  /\ DOMAIN body = Range(InputKeys)
            /\ Cardinality(DOMAIN body) = 9
            /\ DOMAIN body \cap LiveOnlyKeys = {}
            /\ \A k \in DOMAIN body :
                  /\ body[k] # Undef
                  /\ ~Nullish(protection[k]) => body[k] = protection[k]
                  /\ Nullish(protection[k]) =>
                        body[k] = IF k \in Range(FlagKeys)
                                  THEN Bool(k = "required_conversation_resolution")
                                  ELSE Null

\* C10 witness: a body was sent for a protection that carries the live-only
\* members, leaves a flag out and gives others.
C10_Witness ==
    /\ Len(batch.sent) >= 1
    /\ batch.protection = FullLive
    /\ batch.protection.url # Undef
    /\ Nullish(batch.protection.allow_deletions)
    /\ batch.sent[1].body.enforce_admins = Bool(TRUE)

----------------------------------------------------------------------------
(* Claims about the diff (SpecDiff). *)

\* A key is present on a configuration that has it with a value: null is a
\* value, undefined is none, and the live configuration null has no key.
Present(config, key) == config # Null /\ config[key] # Undef

\* The lists of the diff that name key.
ListedIn(key) ==
    {list \in {"added", "removed", "changed"} : key \in Range(diffOut[list])}

\* C5: the diff of the scenario (live enforce_admins false and no pull request
\* reviews, proposed enforce_admins true and default pull request reviews) has
\* changed = [enforce_admins] and added = [required_pull_request_reviews].
C5_DiffScenario ==
    (diffOut # Undef /\ diffIn.current = ScenarioLive
                     /\ diffIn.proposed = ScenarioProposed) =>
        /\ diffOut.changed = <<"enforce_admins">>
        /\ diffOut.added = <<"required_pull_request_reviews">>

C7_DiffSelfEmpty ==
    (diffOut # Undef /\ diffIn.current = diffIn.proposed) =>
        /\ diffOut.added = <<>>
        /\ diffOut.removed = <<>>
        /\ diffOut.changed = <<>>

\* C7 witness: a live configuration carrying url, required_signatures and
\* lock_branch was diffed against itself.
C7_Witness ==
    /\ diffOut # Undef
    /\ diffIn.current = diffIn.proposed
    /\ diffIn.current.url # Undef
    /\ diffIn.current.required_signatures # Null
    /\ diffIn.current.lock_branch # Null
    /\ diffIn.current.required_status_checks.t = "object"

\* The two status checks differ at most in the order of their context names.
SameChecksUpToOrder(a, b) ==
    /\ a.t = "object" /\ b.t = "object"
    /\ a.strict = b.strict
    /\ Len(a.contexts.v) = Len(b.contexts.v)
    /\ Range(a.contexts.v) = Range(b.contexts.v)

\* C8: status checks that differ only in the order of their context names are
\* not reported as changed.
C8_DiffContextsUnordered ==
    (/\ diffOut # Undef
     /\ diffIn.current # Null
     /\ SameChecksUpToOrder(diffIn.current.required_status_checks,
                            diffIn.proposed.required_status_checks)) =>
        "required_status_checks" \notin Range(diffOut.changed)

----------------------------------------------------------------------------
(* Claims about the application (Spec). *)

\* C4: at any moment at most one external operation is in flight, whatever
\* keys are pressed and whether or not the loading flag is set.
C4_OneOperationInFlight ==
    Cardinality(ExternalOps(pending)) <= 1

\* C9: once the editor was confirmed, the proposed configuration the controller
\* stores, and the one the preview shows, carry none of url,
\* required_signatures, lock_branch.
C9_ProposedNoLiveOnly ==
    /\ state.proposedProtection # Null =>
          \A k \in LiveOnlyKeys : state.proposedProtection[k] = Undef
    /\ currentScreenComponent.kind = "preview" =>
          \A k \in LiveOnlyKeys : currentScreenComponent.proposed[k] = Undef

----------------------------------------------------------------------------
(* Claims about the functions of api/github (SpecApi). *)

\* C11: the request body built from a configuration, read back as a response,
\* transformed and made a request body again has each of the six flags as the
\* first request body had it.
C11_FlagsRoundTrip ==
    apiOut.second # Undef =>
        \A k \in Range(FlagKeys) : apiOut.second[k] = apiOut.first[k]

\* A round trip of a configuration with a flag set, a flag left out and a
\* flag that holds null.
C11_Witness ==
    /\ apiOut.second # Undef
    /\ apiIn.config.enforce_admins = Bool(TRUE)
    /\ apiIn.config.required_linear_history = Undef
    /\ apiIn.config.required_conversation_resolution = Null
    /\ apiOut.second.enforce_admins = Bool(TRUE)

\* The flag of the response is neither a boolean nor an object with enabled.
Malformed(v) ==
    /\ ~Nullish(v)
    /\ v.t # "boolean"
    /\ ~(v.t = "object" /\ "enabled" \in DOMAIN v)

\* C12: transforming a raw response yields a boolean for each of the six
\* flags, the default for a flag the response has not, false for a flag of
\* an unknown shape.
C12_NormalizeTotal ==
    apiOut.normalized # Undef =>
        \A k \in Range(FlagKeys) :
            /\ apiOut.normalized[k].t = "boolean"
            /\ apiIn.raw[k] = Undef => apiOut.normalized[k] = FlagDefault(k)
            /\ Malformed(apiIn.raw[k]) => apiOut.normalized[k] = Bool(FALSE)

\* C13: extractEnabled gives null for null and undefined, the enabled member
\* of an object that has one and any other value as it is;
\* transformProtectionResponse applies it to the six flags and leaves the
\* review and status check members as the response has them, undefined when
\* it has them not.
C13_ExtractEnabled ==
    apiOut.normalized # Undef =>
        /\ \A k \in Range(FlagKeys) :
              LET value == apiIn.raw[k]
              IN  apiOut.normalized[k] =
                    IF value \in {Null, Undef} THEN Null
                    ELSE IF value.t = "object" /\ "enabled" \in DOMAIN value
                    THEN value.enabled
                    ELSE value
        /\ \A k \in Slots :
              apiIn.raw[k] = Undef => apiOut.normalized[k] = Undef

\* A response transformed that has a flag missing, a flag as a string, and
\* neither reviews nor status checks.
C13_Witness ==
    /\ apiOut.normalized # Undef
    /\ apiIn.raw.enforce_admins = Undef
    /\ apiIn.raw.required_conversation_resolution = Str(<<"string">>)
    /\ apiIn.raw.required_pull_request_reviews = Undef
    /\ apiOut.normalized.required_conversation_resolution = Str(<<"string">>)
    /\ apiOut.normalized.enforce_admins = Null

----------------------------------------------------------------------------
(* Claims about the editor (SpecEditor). *)

\* The editor on screen, and its configuration.
OnEditor == currentScreenComponent.kind = "editor"
Protection == currentScreenComponent.protection
Reviews == Protection.required_pull_request_reviews
Checks == Protection.required_status_checks

\* The key of the focused field, "none" without one.
FocusedKey ==
    LET field == FocusedField(EditorOf(currentScreenComponent))
    IN  IF field = Undef THEN "none" ELSE field.key

\* The text is a decimal numeral: one digit or more and nothing else.
IsNumeral(val) == val # <<>> /\ \A i \in 1..Len(val) : IsDigit(val[i])

\* C14: the approving review count of the editor's configuration is a
\* non-negative integer at all times, and a text given to the count field that
\* is not a numeral (has a sign, a letter, or nothing) leaves the count as it
\* was.
C14_CountKept ==
    /\ [](OnEditor /\ Truthy(Reviews) =>
            /\ Reviews.required_approving_review_count.t = "number"
            /\ Reviews.required_approving_review_count.v \in Nat)
    /\ [][(/\ OnEditor
           /\ FocusedKey = "required_approving_review_count"
           /\ \E val \in {t \in InputTexts : ~IsNumeral(t)} : EditorInputOf(val))
          => Reviews' = Reviews]_vars

\* Enter on the focused field of the given key, the workflow modal closed.
EnterOn(key) ==
    /\ OnEditor
    /\ ~currentScreenComponent.showWorkflowModal
    /\ FocusedKey = key
    /\ EditorKeyPress(Key("return", FALSE, FALSE))

OtherSlot(slot) == CHOOSE other \in Slots : other # slot

KeysOf(fields) == [i \in 1..Len(fields) |-> fields[i].key]

\* C17: the field list is determined by the configuration and by whether a
\* workflow is known: the six flags in their order, rpr_enabled and, with
\* reviews, its three members, rsc_enabled and, with status checks, strict,
\* contexts and (with a workflow known) add_workflow, the divider, apply.
\* The rows on screen are that list, and so is the list built anew.
C17_FieldList ==
    OnEditor =>
        LET expected ==
                <<"enforce_admins", "required_linear_history",
                  "allow_force_pushes", "allow_deletions", "block_creations",
                  "required_conversation_resolution", "rpr_enabled">>
                \o (IF Reviews # Null /\ Reviews # Undef
                    THEN <<"dismiss_stale_reviews", "require_code_owner_reviews",
                           "required_approving_review_count">>
                    ELSE <<>>)
                \o <<"rsc_enabled">>
                \o (IF Checks # Null /\ Checks # Undef
                    THEN <<"strict", "contexts">>
                         \o (IF Len(currentScreenComponent.workflows) >= 1
                             THEN <<"add_workflow">> ELSE <<>>)
                    ELSE <<>>)
                \o <<"divider_apply", "apply">>
        IN  /\ KeysOf(currentScreenComponent.fields) = expected
            /\ KeysOf(buildFields(Protection, currentScreenComponent.workflows))
                  = expected

\* An editor with reviews, status checks and a workflow known: sixteen rows.
C17_Witness ==
    /\ OnEditor
    /\ Truthy(Reviews)
    /\ Truthy(Checks)
    /\ Len(currentScreenComponent.workflows) >= 1
    /\ Len(currentScreenComponent.fields) = 16

\* The contexts of the status checks, none without status checks.
ContextsNow == IF Truthy(Checks) THEN Checks.contexts.v ELSE <<>>

\* C18: opening the workflow picker selects exactly the known workflows
\* whose name is among the contexts; Enter in the picker closes it and makes
\* the contexts the former contexts, in their order, followed by the selected
\* names that were not among them, in the order of the workflow list.
C18_WorkflowPicker ==
    [][/\ (EnterOn("add_workflow") /\ OnEditor') =>
            /\ currentScreenComponent'.showWorkflowModal
            /\ Len(currentScreenComponent'.workflowItems)
                  = Len(currentScreenComponent.workflows)
            /\ \A i \in 1..Len(currentScreenComponent.workflows) :
                  LET item == currentScreenComponent'.workflowItems[i]
                  IN  /\ item.workflow = currentScreenComponent.workflows[i]
                      /\ item.selected <=>
                            item.workflow \in Range(ContextsNow)
       /\ (/\ OnEditor
           /\ currentScreenComponent.showWorkflowModal
           /\ EditorKeyPress(Key("return", FALSE, FALSE))) =>
            LET New(item) == /\ item.selected
                             /\ item.workflow \notin Range(ContextsNow)
                added == SelectSeq(currentScreenComponent.workflowItems, New)
            IN  /\ ~currentScreenComponent'.showWorkflowModal
                /\ ContextsNow' =
                      ContextsNow \o [i \in 1..Len(added) |-> added[i].workflow]]_vars

\* The scenario: contexts [ci/build], workflows [ci/build, ci/test], ci/test
\* selected beside the ci/build the picker had selected, Enter.
C18_Witness ==
    /\ OnEditor
    /\ edits = 1
    /\ ~currentScreenComponent.showWorkflowModal
    /\ state.currentProtection # Null
    /\ state.currentProtection.required_pull_request_reviews = Null
    /\ currentScreenComponent.workflows = << <<"ci/build">>, <<"ci/test">> >>
    /\ currentScreenComponent.workflowItems =
          <<[workflow |-> <<"ci/build">>, selected |-> TRUE],
            [workflow |-> <<"ci/test">>, selected |-> TRUE]>>
    /\ ContextsNow = << <<"ci/build">>, <<"ci/test">> >>

\* C19: Esc in the workflow picker closes it, and from the opening of the
\* picker to its closing by Esc no step changes the configuration, whatever
\* is selected or deselected in between.
C19_PickerCancel ==
    [][(OnEditor /\ currentScreenComponent.showWorkflowModal) =>
         /\ EditorKeyPress(Key("escape", FALSE, FALSE)) =>
               /\ OnEditor'
               /\ ~currentScreenComponent'.showWorkflowModal
               /\ Protection' = Protection
         /\ ~EditorKeyPress(Key("return", FALSE, FALSE)) =>
               /\ OnEditor'
               /\ Protection' = Protection]_vars

\* The picker was closed by Esc with a workflow selected that is not among
\* the contexts.
C19_Witness ==
    /\ OnEditor
    /\ edits = 0
    /\ ~currentScreenComponent.showWorkflowModal
    /\ Truthy(Checks)
    /\ \E i \in 1..Len(currentScreenComponent.workflowItems) :
          /\ currentScreenComponent.workflowItems[i].selected
          /\ currentScreenComponent.workflowItems[i].workflow
                \notin Range(ContextsNow)

\* C20: no name occurs twice in the contexts of the editor's status checks,
\* whatever texts the contexts input was given and whatever the picker added.
C20_ContextsDistinct ==
    OnEditor =>
        \A i, j \in 1..Len(ContextsNow) :
            ContextsNow[i] = ContextsNow[j] => i = j

----------------------------------------------------------------------------
(* Claims about the screens (Spec). *)

\* detectLocalRepo() is awaited: runApp was started in local mode and has shown
\* no screen yet.
Detecting == \E i \in 1..Len(pending) : pending[i].kind = "detect"

\* C28: without local mode the first screen is orgs; in local mode, once the
\* detection ends, either the organization and one selected repository are
\* those of the detected repository and the first screen is branches, or the
\* error is set and the first screen is orgs.
C28_InitialRouting ==
    /\ ~Detecting =>
          /\ state.screen = "orgs"
          /\ currentScreenComponent.kind = "orgs"
          /\ state.error = Null
    /\ [][(Detecting /\ ~Detecting') =>
            \/ /\ state'.screen = "branches"
               /\ currentScreenComponent'.kind = "branches"
               /\ state'.org # Null
               /\ Len(state'.selectedRepos) = 1
               /\ state'.selectedRepos[1].owner = state'.org.login
               /\ state'.error = Null
            \/ /\ state'.screen = "orgs"
               /\ currentScreenComponent'.kind = "orgs"
               /\ state'.error # Null
               /\ state'.org = Null
               /\ state'.selectedRepos = <<>>]_vars

\* Local mode with a repository detected: the first screen is branches.
C28_Witness ==
    /\ screens = 1
    /\ state.screen = "branches"
    /\ currentScreenComponent.kind = "branches"
    /\ state.org = [login |-> "acme"]
    /\ state.selectedRepos = <<[name |-> "api", owner |-> "acme"]>>

\* The Esc key.
Esc == Key("escape", FALSE, FALSE)

\* The screen shown is the given one.
Shows(screen) ==
    state.screen = screen /\ currentScreenComponent.kind = screen

\* C21: Esc on the editor (its workflow picker closed) leads to branches, Esc
\* on branches to repos, Esc on repos to orgs, Esc on the preview to the
\* editor.
C21_BackOneScreen ==
    [][/\ (EditorKeyPress(Esc) /\ ~currentScreenComponent.showWorkflowModal)
            => Shows("branches")'
       /\ BranchesKeyPress(Esc) => Shows("repos")'
       /\ ReposKeyPress(Esc) => Shows("orgs")'
       /\ PreviewKeyPress(Esc) => Shows("editor")']_vars

\* Esc was pressed on the editor while its workflows were still asked for: the
\* branch screen is shown again, the branch and the live configuration stored.
C21_Witness ==
    /\ Shows("branches")
    /\ state.branch # Null
    /\ state.currentProtection # Null
    /\ Len(pending) = 2
    /\ pending[1].kind = "workflows" /\ ~pending[1].attached
    /\ pending[2].kind = "branches" /\ pending[2].attached

\* Neither proposed configuration nor results are stored.
NoProposal(st) == st.proposedProtection = Null /\ st.results = <<>>

\* C22: once an organization is chosen no selected repository, branch, live
\* configuration, proposed configuration or result is stored; once
\* repositories are chosen no branch, live or proposed configuration or result
\* is stored; once a branch is chosen no proposed configuration or result is
\* stored and the live configuration is asked for.
C22_ResetRules ==
    [][/\ OrgChosen =>
            /\ state'.selectedRepos = <<>>
            /\ state'.branch = Null
            /\ state'.currentProtection = Null
            /\ NoProposal(state')
       /\ (ReposConfirmed /\ state'.screen = "branches") =>
            /\ state'.branch = Null
            /\ state'.currentProtection = Null
            /\ NoProposal(state')
       /\ BranchChosen =>
            /\ NoProposal(state')
            /\ \E i \in 1..Len(pending') : pending'[i].kind = "protection"]_vars

\* The fetch of the live configuration in flight at index i fails in this
\* step, the branch selector that asked for it still on screen.
FetchFails(i) ==
    /\ i \in 1..Len(pending)
    /\ pending[i].kind = "protection"
    /\ pending[i].attached
    /\ [j \in 1..Len(pending') |-> pending'[j].kind]
          = [j \in 1..(Len(pending) - 1) |-> Remove(pending, i)[j].kind]
    /\ screens' = screens

\* C23: when the fetch of the live configuration fails, the screen is still
\* branches, the error is recorded, the branch stored is the one stored before
\* the branch was chosen, and the live configuration, the proposed
\* configuration and the results stored are left as they are.
C23_FetchFailure ==
    [][\A i \in 1..MaxPending :
         FetchFails(i) =>
            /\ Shows("branches")'
            /\ state'.error # Null
            /\ state'.branch = pending[i].arg.before
            /\ state'.currentProtection = state.currentProtection
            /\ state'.proposedProtection = state.proposedProtection
            /\ state'.results = state.results]_vars

\* The Enter key.
Enter == Key("return", FALSE, FALSE)

\* The applies in flight.
Applies(ops) == {i \in 1..Len(ops) : ops[i].kind = "apply"}

\* The two are the same operation in flight.
SameOp(a, b) ==
    /\ a.kind = b.kind
    /\ a.attached = b.attached
    /\ a.kind = "apply" => a.arg = b.arg

\* The apply in flight at index i returns in this step, the preview that
\* started it still on screen.
ApplyReturns(i) ==
    /\ i \in Applies(pending)
    /\ pending[i].attached
    /\ Len(pending') = Len(pending) - 1
    /\ \A j \in 1..Len(pending') :
          SameOp(pending'[j], Remove(pending, i)[j])

\* C24: Enter on the preview in diff mode starts an apply whose targets are
\* the selected repositories in their order, each with the stored branch;
\* when the apply returns the preview is in results mode and holds its
\* results, one per target; Enter in results mode shows the editor and starts
\* no apply.
C24_ConfirmApplies ==
    [][/\ (PreviewKeyPress(Enter) /\ currentScreenComponent.mode = "diff") =>
            /\ Len(pending') = Len(pending) + 1
            /\ pending'[Len(pending')].kind = "apply"
            /\ LET targets == pending'[Len(pending')].arg.targets
               IN  /\ Len(targets) = Len(state.selectedRepos)
                   /\ \A n \in 1..Len(targets) :
                         /\ targets[n].owner = state.selectedRepos[n].owner
                         /\ targets[n].repo = state.selectedRepos[n].name
                         /\ targets[n].branch = state.branch
            /\ Shows("preview")'
       /\ \A i \in 1..MaxPending :
            ApplyReturns(i) =>
                /\ Shows("preview")'
                /\ currentScreenComponent'.mode = "results"
                /\ currentScreenComponent'.results = state'.results
                /\ Len(state'.results) = Len(pending[i].arg.targets)
                /\ \A n \in 1..Len(state'.results) :
                      \E t \in 1..Len(pending[i].arg.targets) :
                         /\ state'.results[n].repo.name = pending[i].arg.targets[t].repo
                         /\ state'.results[n].branch = pending[i].arg.targets[t].branch
       /\ (PreviewKeyPress(Enter) /\ currentScreenComponent.mode = "results") =>
            /\ Shows("editor")'
            /\ Cardinality(Applies(pending')) = Cardinality(Applies(pending))]_vars

\* The preview holds the results of an apply to two selected repositories.
C24_Witness ==
    /\ Shows("preview")
    /\ currentScreenComponent.mode = "results"
    /\ Len(state.selectedRepos) = 2
    /\ Len(currentScreenComponent.results) = 2
    /\ currentScreenComponent.results[1].repo.name = "api"
    /\ currentScreenComponent.results[2].repo.name = "web"

\* C29: no update of an apply that fails sets the error of the screen: a step
\* of an apply leaves state.error as it is, and when the apply returns the
\* results view holds a result for every target, the failed ones included.
C29_FailuresInResults ==
    [][/\ ApplySettles => state'.error = state.error
       /\ \A i \in 1..MaxPending :
            ApplyReturns(i) =>
                LET targets == pending[i].arg.targets
                    shown == currentScreenComponent'.results
                IN  /\ currentScreenComponent'.mode = "results"
                    /\ Len(shown) = Len(targets)
                    /\ \A t \in 1..Len(targets) :
                          \E n \in 1..Len(shown) :
                             shown[n].repo.name = targets[t].repo]_vars

\* The results view holds a failure beside a success, and no error is set.
C29_Witness ==
    /\ Shows("preview")
    /\ currentScreenComponent.mode = "results"
    /\ state.error = Null
    /\ \E n \in 1..Len(currentScreenComponent.results) :
          ~currentScreenComponent.results[n].success
    /\ \E n \in 1..Len(currentScreenComponent.results) :
          currentScreenComponent.results[n].success

\* C30: in the results view the counts of the summary line satisfy
\* success + failed = total = the number of results.
C30_CountsAddUp ==
    (Shows("preview") /\ currentScreenComponent.mode = "results") =>
        LET counts == renderResults(currentScreenComponent.results)
        IN  /\ counts.success + counts.failed = counts.total
            /\ counts.total = Len(currentScreenComponent.results)
            /\ counts.success =
                  Cardinality({n \in 1..Len(currentScreenComponent.results) :
                                  currentScreenComponent.results[n].success})

\* The results view of two results, one of each kind, in the order failure,
\* success.
C30_Witness ==
    /\ Shows("preview")
    /\ currentScreenComponent.mode = "results"
    /\ Len(currentScreenComponent.results) = 2
    /\ ~currentScreenComponent.results[1].success
    /\ currentScreenComponent.results[2].success

----------------------------------------------------------------------------
(* Claims about the editor's completion (SpecEditor). *)

\* The Ctrl+A key.
CtrlA == Key("a", FALSE, TRUE)

\* C25: the editor is left for the preview only by Enter on the apply field or
\* by Ctrl+A, in both cases with the workflow picker closed, and both do
\* leave it; the proposed configuration stored is then the editor's
\* configuration, and the preview shows the diff of the stored live
\* configuration and that configuration.
C25_EditorCompletion ==
    [][/\ (OnEditor /\ state'.screen = "preview") =>
            /\ ~currentScreenComponent.showWorkflowModal
            /\ \/ EditorKeyPress(Enter) /\ FocusedKey = "apply"
               \/ EditorKeyPress(CtrlA)
            /\ state'.proposedProtection = Protection
            /\ state'.currentProtection = state.currentProtection
            /\ currentScreenComponent'.kind = "preview"
            /\ currentScreenComponent'.mode = "diff"
            /\ currentScreenComponent'.diff =
                  diffProtection(state.currentProtection, Protection)
       /\ (/\ OnEditor
           /\ ~currentScreenComponent.showWorkflowModal
           /\ \/ EditorKeyPress(Enter) /\ FocusedKey = "apply"
              \/ EditorKeyPress(CtrlA))
            => state'.screen = "preview"
       /\ (OnEditor /\ currentScreenComponent.showWorkflowModal)
            => state'.screen = "editor"]_vars

\* The preview of an editor in which the reviews of the live configuration
\* were switched off.
C25_Witness ==
    /\ Shows("preview")
    /\ edits = 1
    /\ state.currentProtection # Null
    /\ Truthy(state.currentProtection.required_pull_request_reviews)
    /\ state.proposedProtection.required_pull_request_reviews = Null
    /\ "required_pull_request_reviews" \in Range(currentScreenComponent.diff.changed)

----------------------------------------------------------------------------
(* Claims about the templates (SpecTemplates). *)

\* C26: once a template is chosen the screen is the editor; a key the editor
\* handles while the timer of the choice is still to fire finds the editor
\* with the template's configuration; and when the timer fires the editor on
\* screen is given the template's configuration.
C26_TemplateLoaded ==
    [][/\ \A protection \in TemplateConfigs :
            TemplateChosenOf(protection) => Shows("editor")'
       /\ \A i \in 1..Len(pending) :
            (/\ pending[i].kind = "timer"
             /\ OnEditor
             /\ \E key \in TemplatesEditorKeys : EditorKeyPress(key))
                => currentScreenComponent.protection = pending[i].arg
       /\ \A i \in 1..MaxPending :
            TimerFiresAt(i) =>
                /\ Shows("editor")'
                /\ currentScreenComponent'.protection = pending[i].arg]_vars

\* C27: on the editor screen a press of Ctrl+S adds one template to the store,
\* with the proposed configuration of the controller, and leaves the
\* controller's state and the editor as they are; on another screen no step
\* adds a template.
C27_SaveShortcut ==
    /\ [](OnEditor =>
            LET w == editorKey(World, CtrlS)
            IN  /\ Len(w.templates) = Len(templates) + 1
                /\ w.templates[Len(w.templates)].protection
                      = state.proposedProtection
                /\ w.state = state
                /\ w.component = currentScreenComponent)
    /\ [][state.screen # "editor" => templates' = templates]_vars

----------------------------------------------------------------------------
(* Claims about the template store (SpecStore). *)

\* C31: when a save writes the file of a name that exists, the file keeps its
\* created_at, and its updated_at is the time of that save, not an earlier
\* time than the one it held.
C31_CreatedAtKept ==
    [][\A i \in 1..MaxPending :
          (FileWrittenAt(i) /\ loadTemplate(store, store.saves[i].name) # Null) =>
              LET before == loadTemplate(store, store.saves[i].name)
                  after == loadTemplate(store', store.saves[i].name)
              IN  /\ after.created_at = before.created_at
                  /\ after.updated_at = store.saves[i].template.updated_at
                  /\ after.updated_at >= before.updated_at]_vars

----------------------------------------------------------------------------
(* Claims about the editor's field list and focus (SpecEditor, SpecFocus). *)

\* C32: on the editor screen the stored field list is the list built from the
\* configuration and the workflows the editor holds, value by value.
C32_FieldsUpToDate ==
    OnEditor =>
        currentScreenComponent.fields
            = buildFields(Protection, currentScreenComponent.workflows)

\* C33: on the editor screen the focus index is an index of the field list.
C33_FocusInRange ==
    OnEditor =>
        /\ 0 <= currentScreenComponent.focusIndex
        /\ currentScreenComponent.focusIndex < Len(currentScreenComponent.fields)

----------------------------------------------------------------------------
(* Claims about the flow of the screens (Spec). *)

\* What the user can do: choose an item of the list on screen, or press a key.
UserActs ==
    \/ OrgChosen \/ ReposConfirmed \/ ReposKey \/ BranchChosen \/ BranchesKey
    \/ EditorKey \/ PreviewKey

\* C34: in every state with nothing in flight (and the bound on the screens not
\* reached) the user can do something that changes the state: leave the
\* screen, or ask again for what failed.
C34_NoDeadEnd ==
    (pending = <<>> /\ screens < MaxScreens) => ENABLED <<UserActs>>_vars

----------------------------------------------------------------------------
(* Claims about the editor and the stored configurations (SpecEditor). *)

\* The diff lists no key.
NoChanges(diff) ==
    diff.added = <<>> /\ diff.removed = <<>> /\ diff.changed = <<>>

\* C35: no step of the editor changes the live configuration the controller
\* stores, and the preview of an edited configuration lists a change.
C35_LiveUntouched ==
    /\ [][state'.currentProtection = state.currentProtection]_vars
    /\ []((Shows("preview") /\ edits > 0)
            => ~NoChanges(currentScreenComponent.diff))

----------------------------------------------------------------------------
(* Claims about completions and the screens (Spec). *)

\* Every operation of the kind in flight was asked for by a screen that was
\* left since.
AllLeft(kind) ==
    \A i \in 1..Len(pending) : pending[i].kind = kind => ~pending[i].attached

\* C36: a completion for a screen that was left keeps the screen: that of a
\* list of organizations, repositories, branches or workflows, that of an
\* apply, and that of the fetch of the live configuration, which does not
\* show the editor.
C36_LateCompletion ==
    [][/\ (OrgsSettle /\ AllLeft("orgs")) => state'.screen = state.screen
       /\ (ReposSettle /\ AllLeft("repos")) => state'.screen = state.screen
       /\ (BranchesSettle /\ AllLeft("branches")) => state'.screen = state.screen
       /\ (WorkflowsSettle /\ AllLeft("workflows")) => state'.screen = state.screen
       /\ (ApplySettles /\ AllLeft("apply")) => state'.screen = state.screen
       /\ (ProtectionSettles /\ AllLeft("protection"))
            => state'.screen = state.screen]_vars

----------------------------------------------------------------------------
(* Claims about the screens and the selections (SpecFlow). *)

\* C37: on the branches, editor, templates and preview screens a repository is
\* selected; on the editor and preview screens a branch is stored; on the
\* preview screen a proposed configuration is stored; on the repos screen an
\* organization is stored.
C37_ScreenSelection ==
    /\ state.screen \in {"branches", "editor", "templates", "preview"}
        => Len(state.selectedRepos) > 0
    /\ state.screen \in {"editor", "preview"} => state.branch # Null
    /\ state.screen = "preview" => state.proposedProtection # Null
    /\ state.screen = "repos" => state.org # Null

\* The preview is on screen, with all it needs stored.
C37_Witness ==
    /\ Shows("preview")
    /\ Len(state.selectedRepos) > 0
    /\ state.org # Null /\ state.branch # Null
    /\ state.proposedProtection # Null

----------------------------------------------------------------------------
(* Claims about the preview (Spec). *)

\* C38: a key on the preview that leads back to the editor (Esc, or Enter once
\* the results are shown) gives an editor whose configuration is the proposed
\* configuration that was previewed.
C38_EditsKept ==
    [][\A key \in Keys :
          (PreviewKeyPress(key) /\ Shows("preview") /\ state'.screen = "editor")
              => currentScreenComponent'.protection = state.proposedProtection]_vars

\* The batch applies in flight that the preview on screen started.
OwnApplies(ops) == {i \in Applies(ops) : ops[i].attached}

\* C39: at most one batch apply started by the preview on screen is in flight:
\* a confirm pressed before the apply has completed starts no second one.
C39_OneApply ==
    Shows("preview") => Cardinality(OwnApplies(pending)) <= 1

----------------------------------------------------------------------------
(* Claims about the workflow picker (SpecEditor). *)

\* Enter is pressed in the open workflow picker.
PickerConfirm ==
    /\ OnEditor
    /\ currentScreenComponent.showWorkflowModal
    /\ EditorKeyPress(Key("return", FALSE, FALSE))

\* C40: Enter in the workflow picker removes no name: a name of the contexts
\* that was deselected in the picker is still among them, the names that were
\* among the contexts are there in the order they had, and with nothing
\* selected the configuration is as it was.
C40_PickerOnlyAdds ==
    [][PickerConfirm =>
          LET items == currentScreenComponent.workflowItems
              WasThere(name) == name \in Range(ContextsNow)
          IN  /\ \A i \in 1..Len(items) :
                    (~items[i].selected /\ WasThere(items[i].workflow))
                        => items[i].workflow \in Range(ContextsNow')
              /\ SelectSeq(ContextsNow', WasThere) = ContextsNow
              /\ (\A i \in 1..Len(items) : ~items[i].selected)
                    => Protection' = Protection]_vars

\* The picker was confirmed with the ci/build of the contexts deselected and
\* ci/test selected: ci/build is still the first of the contexts.
C40_Witness ==
    /\ OnEditor
    /\ edits = 1
    /\ ~currentScreenComponent.showWorkflowModal
    /\ currentScreenComponent.workflowItems =
          <<[workflow |-> <<"ci/build">>, selected |-> FALSE],
            [workflow |-> <<"ci/test">>, selected |-> TRUE]>>
    /\ ContextsNow = << <<"ci/build">>, <<"ci/test">> >>

====
